---- MODULE Spec2Model ----
(***************************************************************************)
(* The world / scene model of phantom: the generic SceneGraph<T> of        *)
(* crates/phantom_world/src/scenegraph.rs (a petgraph Graph<T, ()>) and    *)
(* the transform and physics queries of crates/phantom_world/src/world.rs. *)
(*                                                                         *)
(* A graph is a record [nodes, edges, slots].  nodes is the node vector of  *)
(* the petgraph Graph: NodeIndex i is nodes[i + 1].  edges holds the edges *)
(* as <<source, target>> pairs in insertion order; petgraph threads the    *)
(* edges of a node on a list whose head is the newest edge, so the         *)
(* neighbours of a node are enumerated newest edge first.  slots[i] is the *)
(* EdgeIndex of edges[i]: its place in the edge vector, which removing an  *)
(* edge changes (swap_remove) while the lists keep their order.            *)
(*                                                                         *)
(* A node weight is [uid, value]: value is the payload T, uid is a label   *)
(* given at insertion that no modelled operation reads; it names a node    *)
(* independently of the index it currently occupies.                       *)
(***************************************************************************)
EXTENDS Integers, Sequences, FiniteSets, TLC

\* ------------------------------------------------------------- bounds
\* Nodes ever added to the scene graph under test.
MaxAdds == 4
\* Payload values 1..NumValues.
NumValues == 2
\* Nodes on which the visitor handed to walk fails.
MaxFails == 1

\* Entities ever pushed into the ECS, graphs in the scene, nodes over all
\* scene graphs, rigid bodies ever inserted, and the largest coordinate a
\* player move may reach.
MaxEntities == 2
MaxGraphs == 2
MaxSceneNodes == 3
MaxBodies == 2
MaxCoord == 1
\* Colliders ever inserted into the physics bridge.
MaxColliders == 2
\* entities pushed in the runs that save and load the world
MaxSaved == 4
\* States ever boxed for the state machine (the initial one included), and
\* the callbacks after which no further call is made on the machine.
MaxStates == 3
MaxCalls == 7
\* The place, among the callbacks one method makes, of the one that may
\* return Err.
MaxFuse == 3
\* Commands ever boxed for the command list, and the calls of undo and redo.
MaxCommands == 3
MaxUndoRedo == 3
\* materials in the world
MaxMaterials == 1
\* edges drawn with add_edge, and the nodes they are drawn between
MaxEdges == 2
MaxEdgeNodes == 3

Values == 1..NumValues

Outgoing == "Outgoing"
Incoming == "Incoming"

NoIndex == -1

VARIABLES
    scenegraph,   \* the SceneGraph<T> under test: [nodes, edges]
    nextUid,      \* label of the next node added
    last,         \* the last operation: its arguments, the graph before it, what it returned
    ecs,          \* World.ecs: entity e is ecs[e], a record of optional components
    bodies,       \* World.physics.bodies: handle h is bodies[h]
    graphs,       \* World.scene.graphs
    result,       \* the last World query or synchronisation: its arguments, the world
                  \* before it, its Result (NoResult after an operation that builds the world)
    colliders,    \* World.physics.colliders: collider handle c is colliders[c]
    materials,    \* World.materials
    registry,     \* COMPONENT_REGISTRY of the running process: the registered keys
    canon,        \* ENTITY_SERIALIZER of the running process: the entity names it knows
    blob,         \* the persisted world file: <<>> or <<bytes>>
    machine,      \* the StateMachine of the application: running, states, and the
                  \* callbacks its states have received
    commands      \* the CommandList of the editor: its three vectors, and the
                  \* executions and the last call made on it

graphVars == <<scenegraph, nextUid, last>>
appVars == <<machine, commands>>
restVars == <<colliders, materials, registry, canon, blob, appVars>>
worldVars == <<ecs, bodies, graphs, result, restVars>>
vars == <<scenegraph, nextUid, last, ecs, bodies, graphs, result,
          colliders, materials, registry, canon, blob, machine, commands>>

\* ------------------------------------------------------------- helpers
Range(s) == {s[i] : i \in 1..Len(s)}

\* Vec::swap_remove: the last element takes the place of the removed one.
SwapRemove(s, k) ==
    LET n == Len(s) IN
    IF k = n THEN SubSeq(s, 1, n - 1)
    ELSE [i \in 1..(n - 1) |-> IF i = k THEN s[n] ELSE s[i]]

\* ------------------------------------------------------------- petgraph Graph
EmptyGraph == [nodes |-> <<>>, edges |-> <<>>, slots |-> <<>>]

\* SceneGraph::number_of_nodes
number_of_nodes(g) == Len(g.nodes)

\* Graph::node_indices: 0 .. node_count - 1, ascending
node_indices(g) == [i \in 1..Len(g.nodes) |-> i - 1]

NodeSet(g) == 0..(Len(g.nodes) - 1)

\* Graph::add_node: push; the index returned is the old node count
GraphAddNode(g, weight) ==
    [graph |-> [g EXCEPT !.nodes = Append(@, weight)], index |-> Len(g.nodes)]

\* Graph::add_edge (panics when an endpoint is out of bounds: callers guard)
GraphAddEdge(g, a, b) ==
    [g EXCEPT !.edges = Append(@, <<a, b>>), !.slots = Append(@, Len(g.edges))]

\* Graph::neighbors_directed(index, direction), newest edge first; empty for
\* an index that is out of bounds.
neighbors(g, index, direction) ==
    LET IsOut(e) == e[1] = index
        IsIn(e) == e[2] = index
        mine == IF direction = Outgoing THEN SelectSeq(g.edges, IsOut)
                ELSE SelectSeq(g.edges, IsIn)
    IN  [i \in 1..Len(mine) |->
            IF direction = Outgoing THEN mine[Len(mine) + 1 - i][2]
            ELSE mine[Len(mine) + 1 - i][1]]

\* The sequence s without its k-th element
Without(s, k) == [i \in 1..(Len(s) - 1) |-> IF i < k THEN s[i] ELSE s[i + 1]]

\* Graph::remove_edge of the edge edges[k]: it leaves the lists of its
\* endpoints, and the edge vector is swap_removed, so that the edge with the
\* last EdgeIndex takes the index of the removed one.
GraphRemoveEdge(g, k) ==
    LET freed == g.slots[k]
        moved == Len(g.edges) - 1
        rest == Without(g.slots, k)
    IN  [g EXCEPT !.edges = Without(g.edges, k),
                  !.slots = [i \in 1..Len(rest) |->
                                IF rest[i] = moved THEN freed ELSE rest[i]]]

\* The loop of Graph::remove_node over DIRECTIONS = [Outgoing, Incoming]:
\* while the list of `a` has a head, remove that edge.
RECURSIVE RemoveEdgesOf(_, _)
RemoveEdgesOf(g, a) ==
    LET outgoing == {k \in 1..Len(g.edges) : g.edges[k][1] = a}
        incoming == {k \in 1..Len(g.edges) : g.edges[k][2] = a}
        Newest(S) == CHOOSE k \in S : \A j \in S : j <= k
    IN  IF outgoing # {} THEN RemoveEdgesOf(GraphRemoveEdge(g, Newest(outgoing)), a)
        ELSE IF incoming # {} THEN RemoveEdgesOf(GraphRemoveEdge(g, Newest(incoming)), a)
        ELSE g

\* Graph::remove_node: None for an index out of bounds; otherwise every edge
\* with an endpoint at `a` is removed, the node vector is swap_removed, and
\* the edges of the node that moved (the old last index) are re-pointed at `a`.
GraphRemoveNode(g, a) ==
    IF a \notin NodeSet(g) THEN g
    ELSE
        LET old_index == Len(g.nodes) - 1
            kept == RemoveEdgesOf(g, a)
            Fix(x) == IF x = old_index THEN a ELSE x
        IN  [nodes |-> SwapRemove(g.nodes, a + 1),
             edges |-> [i \in 1..Len(kept.edges) |->
                           <<Fix(kept.edges[i][1]), Fix(kept.edges[i][2])>>],
             slots |-> kept.slots]

\* ------------------------------------------------------------- SceneGraph
\* SceneGraph::add_root_node
add_root_node(g, weight) == GraphAddNode(g, weight)

\* SceneGraph::add_edge
add_edge(g, parent_node, node) == GraphAddEdge(g, parent_node, node)

\* add_child with the edge drawn from the child to the parent.
add_child_reversed(g, parent_index, weight) ==
    LET child == add_root_node(g, weight)
    IN  [graph |-> add_edge(child.graph, child.index, parent_index),
         index |-> child.index]

\* add_child that hangs the new node under the node added just before it.
add_child_to_last(g, parent_index, weight) ==
    LET child == add_root_node(g, weight)
    IN  [graph |-> add_edge(child.graph, child.index - 1, child.index),
         index |-> child.index]

\* SceneGraph::add_child: add_root_node, then an edge parent -> child
add_child(g, parent_index, weight) ==
    LET child == add_root_node(g, weight)
    IN  [graph |-> add_edge(child.graph, parent_index, child.index),
         index |-> child.index]

\* has_parents that looks at the outgoing edges.
has_parents_outgoing(g, index) == neighbors(g, index, Outgoing) # <<>>

\* SceneGraph::has_parents / has_children / has_neighbors
has_parents(g, index) == neighbors(g, index, Incoming) # <<>>
has_children(g, index) == neighbors(g, index, Outgoing) # <<>>
has_neighbors(g, index) == has_parents(g, index) \/ has_children(g, index)

\* SceneGraph::get_parent_of: Some(first incoming neighbour) or None
get_parent_of(g, index) ==
    LET incoming == neighbors(g, index, Incoming)
    IN  IF incoming = <<>> THEN NoIndex ELSE incoming[1]

\* One turn of a remove_node that follows the edge to the child and leaves
\* the child in the graph.
remove_node_step_following(g, stack) ==
    LET node_index == stack[Len(stack)]
        out == neighbors(g, node_index, Outgoing)
        below == SubSeq(stack, 1, Len(stack) - 1)
    IN  IF out = <<>> THEN [graph |-> g, stack |-> below]
        ELSE [graph |-> g, stack |-> Append(below, out[1])]

\* One turn of the loop of the innermost remove_node call in progress; the
\* stack holds the node_index of every call in progress.  Without an outgoing
\* neighbour the call returns; with one, remove_node(child_index) is called
\* and begins with the petgraph removal.
remove_node_step(g, stack) ==
    LET node_index == stack[Len(stack)]
        out == neighbors(g, node_index, Outgoing)
        below == SubSeq(stack, 1, Len(stack) - 1)
    IN  IF out = <<>> THEN [graph |-> g, stack |-> below]
        ELSE [graph |-> GraphRemoveNode(g, out[1]), stack |-> Append(stack, out[1])]

\* SceneGraph::remove_node: the petgraph removal first, then, while the index
\* has an outgoing neighbour in the graph as it now is, remove that neighbour.
RECURSIVE remove_node(_, _)
RECURSIVE RemoveWhileChildren(_, _)
RemoveWhileChildren(g, node_index) ==
    LET out == neighbors(g, node_index, Outgoing)
    IN  IF out = <<>> THEN g
        ELSE RemoveWhileChildren(remove_node(g, out[1]), node_index)

remove_node(g, node_index) ==
    RemoveWhileChildren(GraphRemoveNode(g, node_index), node_index)

\* find_node that keeps the last match of the scan.
find_node_last(g, item) ==
    LET matches == SelectSeq(node_indices(g), LAMBDA i : g.nodes[i + 1].value = item)
    IN  IF matches = <<>> THEN NoIndex ELSE matches[Len(matches)]

\* SceneGraph::find_node: node_indices().find(|i| self[*i] == item); NoIndex
\* stands for None.
find_node(g, item) ==
    LET matches == SelectSeq(node_indices(g), LAMBDA i : g.nodes[i + 1].value = item)
    IN  IF matches = <<>> THEN NoIndex ELSE Head(matches)

\* SceneGraph::root_node_indices
root_node_indices(g) ==
    LET IsRoot(i) == ~has_parents(g, i)
    IN  SelectSeq(node_indices(g), IsRoot)

\* Dfs::next, run to the end of one tree or to the visitor's first error.
\* The stack's top is its last element; `discovered` is the visit map; `calls`
\* are the nodes handed to the visitor so far; the visitor fails on `fails`.
RECURSIVE DfsLoop(_, _, _, _, _)
DfsLoop(g, stack, discovered, calls, fails) ==
    IF stack = <<>> THEN [calls |-> calls, err |-> NoIndex]
    ELSE
        LET node == stack[Len(stack)]
            rest == SubSeq(stack, 1, Len(stack) - 1)
        IN  IF node \in discovered THEN DfsLoop(g, rest, discovered, calls, fails)
            ELSE
                LET seen == discovered \cup {node}
                    NotSeen(succ) == succ \notin seen
                    pushed == rest \o SelectSeq(neighbors(g, node, Outgoing), NotSeen)
                IN  IF node \in fails
                    THEN [calls |-> Append(calls, node), err |-> node]
                    ELSE DfsLoop(g, pushed, seen, Append(calls, node), fails)

RECURSIVE WalkFrom(_, _, _, _)

\* The walk loop without the has_parents test: a traversal from every node.
WalkFromEveryNode(g, i, calls, fails) ==
    IF i > Len(node_indices(g)) THEN [calls |-> calls, err |-> NoIndex]
    ELSE
        LET dfs == DfsLoop(g, <<node_indices(g)[i]>>, {}, calls, fails)
        IN  IF dfs.err # NoIndex THEN dfs
            ELSE WalkFrom(g, i + 1, dfs.calls, fails)

\* The walk loop that goes on to the next root after an error and reports
\* the error at the end.
WalkFromBestEffort(g, i, calls, fails) ==
    IF i > Len(node_indices(g)) THEN [calls |-> calls, err |-> NoIndex]
    ELSE
        LET node_index == node_indices(g)[i]
        IN  IF has_parents(g, node_index) THEN WalkFrom(g, i + 1, calls, fails)
            ELSE
                LET dfs == DfsLoop(g, <<node_index>>, {}, calls, fails)
                    later == WalkFrom(g, i + 1, dfs.calls, fails)
                IN  IF dfs.err # NoIndex THEN [calls |-> later.calls, err |-> dfs.err]
                    ELSE later

\* The loop of SceneGraph::walk over node_indices from position i on.
WalkFrom(g, i, calls, fails) ==
    IF i > Len(node_indices(g)) THEN [calls |-> calls, err |-> NoIndex]
    ELSE
        LET node_index == node_indices(g)[i]
        IN  IF has_parents(g, node_index) THEN WalkFrom(g, i + 1, calls, fails)
            ELSE
                LET dfs == DfsLoop(g, <<node_index>>, {}, calls, fails)
                IN  IF dfs.err # NoIndex THEN dfs
                    ELSE WalkFrom(g, i + 1, dfs.calls, fails)

\* SceneGraph::walk with a visitor that returns Err exactly on the nodes of
\* `fails`: the nodes the visitor was called on, in order, and the node whose
\* error is returned as WalkSceneGraph (NoIndex for Ok).
walk(g, fails) == WalkFrom(g, 1, <<>>, fails)

\* The visitor of SceneGraph::collect_nodes folded over the walk: pushes
\* SceneGraphNode::new(self[node_index], linear_offset), then increments.
RECURSIVE CollectVisit(_, _, _, _)
CollectVisit(g, calls, nodes, linear_offset) ==
    IF calls = <<>> THEN nodes
    ELSE CollectVisit(g, Tail(calls),
                      Append(nodes, [value |-> g.nodes[Head(calls) + 1].value,
                                     offset |-> linear_offset]),
                      linear_offset + 1)

\* SceneGraph::collect_nodes
collect_nodes(g) == CollectVisit(g, walk(g, {}).calls, <<>>, 0)

\* ------------------------------------------------------------- Transform
\* Vectors are <<x, y, z>>, quaternions <<i, j, k, w>>, a Mat4 is its four rows.
Vec3(x, y, z) == <<x, y, z>>
Quat(i, j, k, w) == <<i, j, k, w>>

Mat4Identity ==
    <<<<1, 0, 0, 0>>, <<0, 1, 0, 0>>, <<0, 0, 1, 0>>, <<0, 0, 0, 1>>>>

\* Mat4 * Mat4
MatDot(a, b, r, c) ==
    a[r][1] * b[1][c] + a[r][2] * b[2][c] + a[r][3] * b[3][c] + a[r][4] * b[4][c]
MatRow(a, b, r) == <<MatDot(a, b, r, 1), MatDot(a, b, r, 2), MatDot(a, b, r, 3), MatDot(a, b, r, 4)>>
MatMul(a, b) == <<MatRow(a, b, 1), MatRow(a, b, 2), MatRow(a, b, 3), MatRow(a, b, 4)>>

\* glm::translation
Translation(v) ==
    <<<<1, 0, 0, v[1]>>, <<0, 1, 0, v[2]>>, <<0, 0, 1, v[3]>>, <<0, 0, 0, 1>>>>

\* glm::quat_to_mat4: the homogeneous rotation matrix of a unit quaternion
QuatToMat4(q) ==
    LET i == q[1]  j == q[2]  k == q[3]  w == q[4]
    IN  <<<<w * w + i * i - j * j - k * k, 2 * (i * j - w * k), 2 * (w * j + i * k), 0>>,
          <<2 * (w * k + i * j), w * w - i * i + j * j - k * k, 2 * (j * k - w * i), 0>>,
          <<2 * (i * k - w * j), 2 * (w * i + j * k), w * w - i * i - j * j + k * k, 0>>,
          <<0, 0, 0, 1>>>>

\* glm::scaling
Scaling(v) ==
    <<<<v[1], 0, 0, 0>>, <<0, v[2], 0, 0>>, <<0, 0, v[3], 0>>, <<0, 0, 0, 1>>>>

\* Transform::new
TransformNew(translation, rotation, scale) ==
    [translation |-> translation, rotation |-> rotation, scale |-> scale]

\* Transform::matrix: translation * rotation * scale
matrix(t) ==
    MatMul(MatMul(Translation(t.translation), QuatToMat4(t.rotation)), Scaling(t.scale))

\* f32::sqrt on the perfect squares the model's matrices produce
Sqrt(x) == CHOOSE k \in 0..x : k * k = x

\* The scale of Transform::decompose_matrix: m44 times the column norms
DecomposeScale(m) ==
    Vec3(m[4][4] * Sqrt(m[1][1] * m[1][1] + m[2][1] * m[2][1] + m[3][1] * m[3][1]),
         m[4][4] * Sqrt(m[1][2] * m[1][2] + m[2][2] * m[2][2] + m[3][2] * m[3][2]),
         m[4][4] * Sqrt(m[1][3] * m[1][3] + m[2][3] * m[2][3] + m[3][3] * m[3][3]))

\* The translation of Transform::decompose_matrix: the fourth column
DecomposeTranslation(m) == Vec3(m[1][4], m[2][4], m[3][4])

\* ------------------------------------------------------------- World
\* An optional component is <<>> (absent) or <<c>>.
Ok(v) == [ok |-> TRUE, err |-> "", val |-> v]
Err(e) == [ok |-> FALSE, err |-> e, val |-> Mat4Identity]

\* An entity of the ECS: the components it has.  Entity ids are never reused:
\* a removed entity keeps its place in the store with live = FALSE.
NoComponents == [live |-> TRUE, name |-> <<>>, transform |-> <<>>, camera |-> <<>>,
                 light |-> <<>>, mesh |-> <<>>, extra |-> <<>>, rigid_body |-> <<>>]
Removed == [NoComponents EXCEPT !.live = FALSE]

\* Ecs::entry_ref succeeds for the entities that were pushed and not removed
Alive(store, entity) == entity \in 1..Len(store) /\ store[entity].live

HasTransform(store, entity) == Alive(store, entity) /\ store[entity].transform # <<>>
HasRigidBody(store, entity) == Alive(store, entity) /\ store[entity].rigid_body # <<>>

\* RigidBody::new(handle): no colliders yet
RigidBodyNew(handle) == [handle |-> handle, colliders |-> <<>>]

\* RigidBodySet::get
BodyLive(set, handle) == handle \in 1..Len(set) /\ set[handle].live

RECURSIVE global_transform(_, _, _)

\* global_transform with the product taken as local * parent.
global_transform_reversed(store, graph, index) ==
    LET entity == graph.nodes[index + 1].value
    IN  IF ~Alive(store, entity) THEN Err("AccessEntity")
        ELSE IF store[entity].transform = <<>> THEN Err("RequestTransform")
        ELSE
            LET transform == matrix(store[entity].transform[1])
                incoming == neighbors(graph, index, Incoming)
            IN  IF incoming = <<>> THEN Ok(transform)
                ELSE
                    LET parent == global_transform(store, graph, incoming[1])
                    IN  IF ~parent.ok THEN parent
                        ELSE Ok(MatMul(transform, parent.val))

\* World::global_transform
global_transform(store, graph, index) ==
    LET entity == graph.nodes[index + 1].value
    IN  IF ~Alive(store, entity) THEN Err("AccessEntity")
        ELSE IF store[entity].transform = <<>> THEN Err("RequestTransform")
        ELSE
            LET transform == matrix(store[entity].transform[1])
                incoming == neighbors(graph, index, Incoming)
            IN  IF incoming = <<>> THEN Ok(transform)
                ELSE
                    LET parent == global_transform(store, graph, incoming[1])
                    IN  IF ~parent.ok THEN parent
                        ELSE Ok(MatMul(parent.val, transform))

\* The walk of World::entity_global_transform_matrix over one graph: the
\* visitor returns Ok on the nodes of other entities, fails where
\* global_transform fails, and otherwise overwrites `transform` and sets `found`.
EntityWalk(store, graph, entity) ==
    LET mine == {n \in NodeSet(graph) : graph.nodes[n + 1].value = entity}
        fails == {n \in mine : ~global_transform(store, graph, n).ok}
        w == walk(graph, fails)
        IsMine(n) == n \in mine
        hits == SelectSeq(w.calls, IsMine)
    IN  [err |-> w.err,
         found |-> hits # <<>> /\ w.err = NoIndex,
         transform |-> IF hits # <<>> /\ w.err = NoIndex
                       THEN global_transform(store, graph, hits[Len(hits)]).val
                       ELSE Mat4Identity]

RECURSIVE EntityGraphsFrom(_, _, _, _)

\* The loop that searches the default graph only.
EntityGraphsFirstOnly(store, gs, entity, i) ==
    IF i > 1 \/ i > Len(gs) THEN
        IF ~Alive(store, entity) THEN Err("AccessEntity")
        ELSE IF store[entity].transform = <<>> THEN Err("GetComponent")
        ELSE Ok(matrix(store[entity].transform[1]))
    ELSE
        LET w == EntityWalk(store, gs[i], entity)
        IN  IF w.err # NoIndex THEN Err("WalkEntitySceneGraph")
            ELSE IF w.found THEN Ok(w.transform)
            ELSE EntityGraphsFrom(store, gs, entity, i + 1)

\* The loop of World::entity_global_transform_matrix over scene.graphs from
\* position i on, and the fallback to the entity's own Transform.
EntityGraphsFrom(store, gs, entity, i) ==
    IF i > Len(gs) THEN
        IF ~Alive(store, entity) THEN Err("AccessEntity")
        ELSE IF store[entity].transform = <<>> THEN Err("GetComponent")
        ELSE Ok(matrix(store[entity].transform[1]))
    ELSE
        LET w == EntityWalk(store, gs[i], entity)
        IN  IF w.err # NoIndex THEN Err("WalkEntitySceneGraph")
            ELSE IF w.found THEN Ok(w.transform)
            ELSE EntityGraphsFrom(store, gs, entity, i + 1)

\* World::entity_global_transform_matrix
entity_global_transform_matrix(store, gs, entity) ==
    EntityGraphsFrom(store, gs, entity, 1)

\* entity_model_matrix that keeps the translation of the matrix it is given.
entity_model_matrix_own_translation(store, set, entity, global) ==
    IF ~Alive(store, entity) THEN Err("AccessEntity")
    ELSE IF store[entity].rigid_body = <<>> THEN Ok(global)
    ELSE
        LET handle == store[entity].rigid_body[1].handle
        IN  IF ~BodyLive(set, handle) THEN Err("GetPhysicsBody")
            ELSE Ok(matrix(TransformNew(DecomposeTranslation(global),
                                        set[handle].rotation,
                                        DecomposeScale(global))))

\* World::entity_model_matrix
entity_model_matrix(store, set, entity, global) ==
    IF ~Alive(store, entity) THEN Err("AccessEntity")
    ELSE IF store[entity].rigid_body = <<>> THEN Ok(global)
    ELSE
        LET handle == store[entity].rigid_body[1].handle
        IN  IF ~BodyLive(set, handle) THEN Err("GetPhysicsBody")
            ELSE Ok(matrix(TransformNew(set[handle].translation,
                                        set[handle].rotation,
                                        DecomposeScale(global))))

\* sync_rigid_body_to_transform that pushes the rotation as well.
sync_rigid_body_pose(store, set, entity) ==
    IF ~Alive(store, entity) THEN [res |-> Err("AccessEntity"), bodies |-> set]
    ELSE IF store[entity].rigid_body = <<>> THEN [res |-> Err("GetComponent"), bodies |-> set]
    ELSE IF store[entity].transform = <<>> THEN [res |-> Err("GetComponent"), bodies |-> set]
    ELSE
        LET handle == store[entity].rigid_body[1].handle
            transform == store[entity].transform[1]
        IN  IF BodyLive(set, handle)
            THEN [res |-> Ok(Mat4Identity),
                  bodies |-> [set EXCEPT ![handle].translation = transform.translation,
                                         ![handle].rotation = transform.rotation,
                                         ![handle].awake = TRUE]]
            ELSE [res |-> Ok(Mat4Identity), bodies |-> set]

\* sync_rigid_body_to_transform that writes the rotation in place of the
\* translation.
sync_rigid_body_rotation(store, set, entity) ==
    IF ~Alive(store, entity) THEN [res |-> Err("AccessEntity"), bodies |-> set]
    ELSE IF store[entity].rigid_body = <<>> THEN [res |-> Err("GetComponent"), bodies |-> set]
    ELSE IF store[entity].transform = <<>> THEN [res |-> Err("GetComponent"), bodies |-> set]
    ELSE
        LET handle == store[entity].rigid_body[1].handle
            transform == store[entity].transform[1]
        IN  IF BodyLive(set, handle)
            THEN [res |-> Ok(Mat4Identity),
                  bodies |-> [set EXCEPT ![handle].rotation = transform.rotation,
                                         ![handle].awake = TRUE]]
            ELSE [res |-> Ok(Mat4Identity), bodies |-> set]

\* World::sync_rigid_body_to_transform: the Result and the bodies afterwards
sync_rigid_body_to_transform(store, set, entity) ==
    IF ~Alive(store, entity) THEN [res |-> Err("AccessEntity"), bodies |-> set]
    ELSE IF store[entity].rigid_body = <<>> THEN [res |-> Err("GetComponent"), bodies |-> set]
    ELSE IF store[entity].transform = <<>> THEN [res |-> Err("GetComponent"), bodies |-> set]
    ELSE
        LET handle == store[entity].rigid_body[1].handle
            transform == store[entity].transform[1]
        IN  IF BodyLive(set, handle)
            THEN [res |-> Ok(Mat4Identity),
                  bodies |-> [set EXCEPT ![handle].translation = transform.translation,
                                         ![handle].awake = TRUE]]
            ELSE [res |-> Ok(Mat4Identity), bodies |-> set]

\* sync_all_rigid_bodies that copies the translation only.
sync_all_translations(store, set) ==
    [e \in 1..Len(store) |->
        IF store[e].rigid_body # <<>> /\ store[e].transform # <<>>
           /\ BodyLive(set, store[e].rigid_body[1].handle)
        THEN [store[e] EXCEPT
                 !.transform = <<[store[e].transform[1] EXCEPT
                     !.translation = set[store[e].rigid_body[1].handle].translation]>>]
        ELSE store[e]]

\* World::sync_all_rigid_bodies: every (RigidBody, Transform) pair whose body
\* resolves takes the body's translation and rotation.
sync_all_rigid_bodies(store, set) ==
    [e \in 1..Len(store) |->
        IF store[e].rigid_body # <<>> /\ store[e].transform # <<>>
           /\ BodyLive(set, store[e].rigid_body[1].handle)
        THEN [store[e] EXCEPT
                 !.transform = <<[store[e].transform[1] EXCEPT
                     !.translation = set[store[e].rigid_body[1].handle].translation,
                     !.rotation = set[store[e].rigid_body[1].handle].rotation]>>]
        ELSE store[e]]

\* sync_transform_to_rigid_body that copies the translation only.
sync_transform_translation_only(store, set, entity) ==
    IF ~Alive(store, entity) THEN [res |-> Err("AccessEntity"), ecs |-> store, bodies |-> set]
    ELSE IF store[entity].rigid_body = <<>>
    THEN [res |-> Err("GetComponent"), ecs |-> store, bodies |-> set]
    ELSE IF store[entity].transform = <<>>
    THEN [res |-> Err("GetComponent"), ecs |-> store, bodies |-> set]
    ELSE
        LET handle == store[entity].rigid_body[1].handle
        IN  IF BodyLive(set, handle)
            THEN [res |-> Ok(Mat4Identity),
                  ecs |-> [store EXCEPT ![entity].transform =
                              <<[store[entity].transform[1] EXCEPT
                                    !.translation = set[handle].translation]>>],
                  bodies |-> [set EXCEPT ![handle].awake = TRUE]]
            ELSE [res |-> Ok(Mat4Identity), ecs |-> store, bodies |-> set]

\* sync_transform_to_rigid_body that reports a handle that does not resolve.
sync_transform_strict(store, set, entity) ==
    IF ~Alive(store, entity) THEN [res |-> Err("AccessEntity"), ecs |-> store, bodies |-> set]
    ELSE IF store[entity].rigid_body = <<>>
    THEN [res |-> Err("GetComponent"), ecs |-> store, bodies |-> set]
    ELSE IF store[entity].transform = <<>>
    THEN [res |-> Err("GetComponent"), ecs |-> store, bodies |-> set]
    ELSE
        LET handle == store[entity].rigid_body[1].handle
        IN  IF BodyLive(set, handle)
            THEN [res |-> Ok(Mat4Identity),
                  ecs |-> [store EXCEPT ![entity].transform =
                              <<[store[entity].transform[1] EXCEPT
                                    !.translation = set[handle].translation,
                                    !.rotation = set[handle].rotation]>>],
                  bodies |-> [set EXCEPT ![handle].awake = TRUE]]
            ELSE [res |-> Err("GetPhysicsBody"), ecs |-> store, bodies |-> set]

\* World::sync_transform_to_rigid_body: the Result, the ECS and the bodies
\* afterwards.  The Transform takes the body's translation and rotation, and
\* the body is woken; a handle that does not resolve skips both.
sync_transform_to_rigid_body(store, set, entity) ==
    IF ~Alive(store, entity) THEN [res |-> Err("AccessEntity"), ecs |-> store, bodies |-> set]
    ELSE IF store[entity].rigid_body = <<>>
    THEN [res |-> Err("GetComponent"), ecs |-> store, bodies |-> set]
    ELSE IF store[entity].transform = <<>>
    THEN [res |-> Err("GetComponent"), ecs |-> store, bodies |-> set]
    ELSE
        LET handle == store[entity].rigid_body[1].handle
        IN  IF BodyLive(set, handle)
            THEN [res |-> Ok(Mat4Identity),
                  ecs |-> [store EXCEPT ![entity].transform =
                              <<[store[entity].transform[1] EXCEPT
                                    !.translation = set[handle].translation,
                                    !.rotation = set[handle].rotation]>>],
                  bodies |-> [set EXCEPT ![handle].awake = TRUE]]
            ELSE [res |-> Ok(Mat4Identity), ecs |-> store, bodies |-> set]

\* WorldPhysics::remove_rigid_body: the handle no longer resolves
physics_remove_rigid_body(set, handle) ==
    IF BodyLive(set, handle) THEN [set EXCEPT ![handle].live = FALSE] ELSE set

\* ------------------------------------------------------------- World: scene and cameras
\* Scene::default(): one empty graph
SceneDefault == [name |-> "Unnamed Scene", graphs |-> <<EmptyGraph>>, skybox |-> <<>>]

\* Transform::look_at(target, up) from the identity orientation.  Looking
\* down -z with y up is the identity quaternion; any other direction is kept
\* as the unevaluated term, its components being irrational.
LookAt(target, up) ==
    IF target[1] = 0 /\ target[2] = 0 /\ target[3] < 0 /\ up = Vec3(0, 1, 0)
    THEN Quat(0, 0, 0, 1)
    ELSE [look_at |-> target, up |-> up]

MAIN_CAMERA_NAME == "Main Camera"

DefaultCamera ==
    [NoComponents EXCEPT
        !.name = <<"Default Camera">>,
        !.transform = <<TransformNew(Vec3(0, 0, 10),
                                     LookAt(Vec3(0, 0, -10), Vec3(0, 1, 0)),
                                     Vec3(1, 1, 1))>>,
        !.camera = <<[name |-> MAIN_CAMERA_NAME, enabled |-> TRUE]>>]

DefaultLight ==
    [NoComponents EXCEPT
        !.name = <<"Default Light">>,
        !.transform = <<TransformNew(Vec3(-4, 2, 0),
                                     LookAt(Vec3(4, -2, 0), Vec3(0, 1, 0)),
                                     Vec3(1, 1, 1))>>,
        !.light = <<[color |-> Vec3(1, 1, 1)]>>]

\* ecs.push(components), then scene.default_scenegraph_mut()?.add_root_node:
\* the entity is pushed before the default graph is looked up.
AddDefault(store, gs, components) ==
    LET pushed == Append(store, components)
        entity == Len(pushed)
    IN  IF gs = <<>>
        THEN [res |-> Err("FindDefaultScenegraph"), ecs |-> pushed, graphs |-> gs]
        ELSE [res |-> Ok(entity), ecs |-> pushed,
              graphs |-> [gs EXCEPT
                  ![1] = add_root_node(@, [uid |-> 0, value |-> entity]).graph]]

\* World::add_default_camera
add_default_camera(store, gs) == AddDefault(store, gs, DefaultCamera)

\* World::add_default_light
add_default_light(store, gs) == AddDefault(store, gs, DefaultLight)

\* World::initialize: a default scene, then the default camera and light
initialize(store) ==
    LET camera == add_default_camera(store, SceneDefault.graphs)
    IN  IF ~camera.res.ok THEN camera
        ELSE add_default_light(camera.ecs, camera.graphs)

\* Ecs::clear: every entity is gone; their ids are not handed out again
EcsClear(store) == [e \in 1..Len(store) |-> Removed]

\* clear that resets the scene without the default camera and light.
clear_without_defaults(store) ==
    [res |-> Ok(0), ecs |-> EcsClear(store), graphs |-> SceneDefault.graphs]

\* World::clear: the ECS, the graphs and the tables are emptied, then
\* initialize() runs.  (materials' = <<>> is in the action.)
clear(store) == initialize(EcsClear(store))

\* active_camera that returns the first camera, enabled or not.
active_camera_any(store, order) ==
    IF order = <<>> THEN Err("FindActiveCamera") ELSE Ok(order[1])

\* World::active_camera: the (Entity, &Camera) pairs come in the order the
\* ECS query yields them; the first enabled one is returned.
active_camera(store, order) ==
    LET hits == SelectSeq(order, LAMBDA e : store[e].camera[1].enabled)
    IN  IF hits = <<>> THEN Err("FindActiveCamera") ELSE Ok(hits[1])

\* ------------------------------------------------------------- World: colliders
\* World.geometry.meshes: the bounding box of each named mesh
Meshes == [cube |-> [min |-> Vec3(-1, -1, -1), max |-> Vec3(1, 1, 1)]]

Abs(x) == IF x < 0 THEN 0 - x ELSE x

\* BoundingBox::half_extents, component_mul'd with a scale.  The boxes of
\* Meshes have even extents, so the halves are whole.
HalfExtents(box, scale) ==
    Vec3((Abs(box.max[1] - box.min[1]) \div 2) * scale[1],
         (Abs(box.max[2] - box.min[2]) \div 2) * scale[2],
         (Abs(box.max[3] - box.min[3]) \div 2) * scale[3])

\* A failure that unwinds instead of returning
Panic(message) == [ok |-> FALSE, err |-> "panic", val |-> message]

\* insert_collider that attaches the collider but does not record its handle
\* in RigidBody.colliders.
insert_collider_unlisted(store, set, cols, entity, collider) ==
    IF ~Alive(store, entity)
    THEN [res |-> Err("AccessEntity"), ecs |-> store, colliders |-> cols]
    ELSE IF store[entity].rigid_body # <<>>
    THEN LET rigid_body == store[entity].rigid_body[1]
         IN  IF ~BodyLive(set, rigid_body.handle)
             THEN [res |-> Panic("Parent rigid body not found."),
                   ecs |-> store, colliders |-> cols]
             ELSE [res |-> Ok(0), ecs |-> store,
                   colliders |-> Append(cols, [shape |-> collider,
                                               parent |-> <<rigid_body.handle>>])]
    ELSE [res |-> Ok(0), ecs |-> store,
          colliders |-> Append(cols, [shape |-> collider, parent |-> <<>>])]

\* World::insert_collider: with a RigidBody the collider goes in with the
\* body as its parent (ColliderSet::insert_with_parent, which panics when the
\* body does not resolve) and its handle is pushed onto RigidBody.colliders;
\* without one it goes in free-standing.
insert_collider(store, set, cols, entity, collider) ==
    IF ~Alive(store, entity)
    THEN [res |-> Err("AccessEntity"), ecs |-> store, colliders |-> cols]
    ELSE IF store[entity].rigid_body # <<>>
    THEN LET rigid_body == store[entity].rigid_body[1]
             handle == Len(cols) + 1
         IN  IF ~BodyLive(set, rigid_body.handle)
             THEN [res |-> Panic("Parent rigid body not found."),
                   ecs |-> store, colliders |-> cols]
             ELSE [res |-> Ok(0),
                   ecs |-> [store EXCEPT ![entity].rigid_body[1].colliders =
                                             Append(@, handle)],
                   colliders |-> Append(cols, [shape |-> collider,
                                               parent |-> <<rigid_body.handle>>])]
    ELSE [res |-> Ok(0), ecs |-> store,
          colliders |-> Append(cols, [shape |-> collider, parent |-> <<>>])]

\* World::add_cylinder_collider
add_cylinder_collider(store, set, cols, entity, half_height, radius) ==
    insert_collider(store, set, cols, entity, <<"cylinder", half_height, radius>>)

\* World::add_box_collider: the cuboid of the mesh's bounding box, scaled by
\* the entity's Transform.scale
add_box_collider(store, set, cols, entity) ==
    IF ~Alive(store, entity)
    THEN [res |-> Err("AccessEntity"), ecs |-> store, colliders |-> cols]
    ELSE IF store[entity].mesh = <<>>
    THEN [res |-> Err("GetComponent"), ecs |-> store, colliders |-> cols]
    ELSE IF store[entity].mesh[1] \notin DOMAIN Meshes
    THEN [res |-> Panic("key not found"), ecs |-> store, colliders |-> cols]
    ELSE IF store[entity].transform = <<>>
    THEN [res |-> Err("GetComponent"), ecs |-> store, colliders |-> cols]
    ELSE LET half_extents == HalfExtents(Meshes[store[entity].mesh[1]],
                                         store[entity].transform[1].scale)
         IN  insert_collider(store, set, cols, entity,
                             <<"cuboid", half_extents[1], half_extents[2], half_extents[3]>>)

\* ------------------------------------------------------------- lookups
\* World::material_at_index
material_at_index(mats, index) ==
    IF index < Len(mats) THEN Ok(mats[index + 1]) ELSE Err("LookupMaterial")

\* Scene::default_scenegraph_mut: the first graph, by its position
default_scenegraph_mut(gs) ==
    IF gs # <<>> THEN Ok(1) ELSE Err("FindDefaultScenegraph")

\* The visitor of World::get_metadata folded over the nodes a walk visited:
\* one entry for a node whose entity renders a mesh the geometry holds.
RECURSIVE MetadataVisit(_, _, _, _, _)
MetadataVisit(store, graph, calls, offset, metadata) ==
    IF calls = <<>> THEN metadata
    ELSE LET entity == graph.nodes[Head(calls) + 1].value
             found == /\ store[entity].mesh # <<>>
                      /\ store[entity].mesh[1] \in DOMAIN Meshes
         IN  MetadataVisit(store, graph, Tail(calls), offset + 1,
                           IF found
                           THEN Append(metadata, [mesh |-> store[entity].mesh[1],
                                                  offset |-> offset + 1])
                           ELSE metadata)

\* World::get_metadata: every graph is walked with a visitor that returns
\* the error of ecs.entry_ref(entity), and the walk's result is unwrapped.
RECURSIVE GetMetadataFrom(_, _, _, _, _)

\* get_metadata with the offset counted from the start of each graph.
GetMetadataPerGraph(store, gs, i, offset, metadata) ==
    IF i > Len(gs) THEN Ok(metadata)
    ELSE LET graph == gs[i]
             missing == {n \in NodeSet(graph) : ~Alive(store, graph.nodes[n + 1].value)}
             walked == walk(graph, missing)
         IN  IF walked.err # NoIndex
             THEN Panic("called Result::unwrap() on an Err value")
             ELSE GetMetadataFrom(store, gs, i + 1, -1,
                                  MetadataVisit(store, graph, walked.calls, offset, metadata))

GetMetadataFrom(store, gs, i, offset, metadata) ==
    IF i > Len(gs) THEN Ok(metadata)
    ELSE LET graph == gs[i]
             missing == {n \in NodeSet(graph) : ~Alive(store, graph.nodes[n + 1].value)}
             walked == walk(graph, missing)
         IN  IF walked.err # NoIndex
             THEN Panic("called Result::unwrap() on an Err value")
             ELSE GetMetadataFrom(store, gs, i + 1, offset + Len(walked.calls),
                                  MetadataVisit(store, graph, walked.calls, offset, metadata))

get_metadata(store, gs) == GetMetadataFrom(store, gs, 1, -1, <<>>)

\* World::flatten_scenegraphs: the nodes collect_nodes gives for each graph,
\* their offsets raised by the number of nodes of the graphs before it.
RECURSIVE FlattenFrom(_, _, _, _)
FlattenFrom(gs, i, offset, nodes) ==
    IF i > Len(gs) THEN nodes
    ELSE LET graph_nodes == collect_nodes(gs[i])
         IN  FlattenFrom(gs, i + 1, offset + Len(graph_nodes),
                         nodes \o [k \in 1..Len(graph_nodes) |->
                                      [graph_nodes[k] EXCEPT !.offset = @ + offset]])

flatten_scenegraphs(gs) == FlattenFrom(gs, 1, 0, <<>>)

\* ------------------------------------------------------------- registry and serialization
\* register_component that starts the registry over with the one key.
register_component_only(reg, key) == {key}

\* register_component: registry.register::<T>(key) on the one registry
register_component(reg, key) == reg \cup {key}

\* The component types an entity may carry, by the key each is registered
\* under; "extra" is a type of an external collaborator, in the registry only
\* after register_component::<Extra>("extra").
ComponentKeys == <<"name", "transform", "camera", "light", "mesh", "rigid_body", "extra">>

\* The archetype of an entity: the keys of the components it has
Layout(components) == {k \in Range(ComponentKeys) : components[k] # <<>>}

\* The order in which the ECS yields its entities: archetype by archetype in
\* the order the archetypes came to be, and in each by entity id.
FirstOfLayout(store, e) ==
    CHOOSE f \in 1..e : /\ store[f].live /\ Layout(store[f]) = Layout(store[e])
                        /\ \A g \in 1..(f - 1) :
                              ~(store[g].live /\ Layout(store[g]) = Layout(store[e]))

RECURSIVE EcsOrderOf(_, _)
EcsOrderOf(store, S) ==
    IF S = {} THEN <<>>
    ELSE LET x == CHOOSE y \in S : \A z \in S :
                      \/ FirstOfLayout(store, y) < FirstOfLayout(store, z)
                      \/ (FirstOfLayout(store, y) = FirstOfLayout(store, z) /\ y <= z)
         IN  <<x>> \o EcsOrderOf(store, S \ {x})

EcsOrder(store) == EcsOrderOf(store, {e \in 1..Len(store) : store[e].live})

\* Canon: the names (uuids) the process has given to entities, as <<name, id>>
CanonName(cn, id) == (CHOOSE p \in cn : p[2] = id)[1]
CanonId(cn, name) == (CHOOSE p \in cn : p[1] = name)[2]
Smallest(S) == CHOOSE n \in S : \A q \in S : n <= q
FreshName(cn) == Smallest((1..(Cardinality(cn) + 1)) \ {p[1] : p \in cn})

\* Canon as EntitySerializer::serialize: an entity without a name gets a new one
RECURSIVE Canonize(_, _)
Canonize(cn, ids) ==
    IF ids = <<>> THEN cn
    ELSE IF \E p \in cn : p[2] = Head(ids) THEN Canonize(cn, Tail(ids))
    ELSE Canonize(cn \cup {<<FreshName(cn), Head(ids)>>}, Tail(ids))

\* Canon as EntitySerializer::deserialize: a name not seen before gets the
\* next id of the allocator, which is past every id handed out so far.
RECURSIVE Resolve(_, _, _)
Resolve(cn, names, allocated) ==
    IF names = <<>> THEN [canon |-> cn, allocated |-> allocated]
    ELSE IF \E p \in cn : p[1] = Head(names) THEN Resolve(cn, Tail(names), allocated)
    ELSE Resolve(cn \cup {<<Head(names), allocated + 1>>}, Tail(names), allocated + 1)

\* Flattening a sequence of sequences
RECURSIVE Flatten(_)
Flatten(ss) == IF ss = <<>> THEN <<>> ELSE Head(ss) \o Flatten(Tail(ss))

\* The components of an entity as (key, value) pairs, in registry order
EncodeComponents(components) ==
    LET present == SelectSeq(ComponentKeys, LAMBDA k : components[k] # <<>>)
    IN  [i \in 1..Len(present) |-> <<present[i], components[present[i]][1]>>]

\* and back: a component per pair
DecodeComponents(pairs) ==
    [k \in DOMAIN NoComponents |->
        IF k = "live" THEN TRUE
        ELSE IF \E i \in 1..Len(pairs) : pairs[i][1] = k
        THEN <<pairs[CHOOSE i \in 1..Len(pairs) : pairs[i][1] = k][2]>>
        ELSE <<>>]

\* serde of a petgraph Graph: the node weights, and the edges by EdgeIndex
EncodeGraph(g, cn) ==
    [nodes |-> [i \in 1..Len(g.nodes) |-> CanonName(cn, g.nodes[i].value)],
     edges |-> [i \in 1..Len(g.edges) |->
                   g.edges[CHOOSE k \in 1..Len(g.edges) : g.slots[k] = i - 1]]]

\* Graph::from_deser: link_edges() threads the edges in EdgeIndex order, so
\* the newest edge of every list is the one with the largest index.
DecodeGraph(bytes, cn) ==
    [nodes |-> [i \in 1..Len(bytes.nodes) |->
                   [uid |-> 0, value |-> CanonId(cn, bytes.nodes[i])]],
     edges |-> bytes.edges,
     slots |-> [i \in 1..Len(bytes.edges) |-> i - 1]]

\* The entities a graph names
GraphEntities(g) == [i \in 1..Len(g.nodes) |-> g.nodes[i].value]

\* world_as_bytes: bincode of the World through serialize_ecs.  A component
\* of a type the registry does not know fails the whole serialization.
world_as_bytes(store, set, cols, gs, mats, reg, cn) ==
    LET order == EcsOrder(store)
        named == Canonize(cn, order \o Flatten([i \in 1..Len(gs) |-> GraphEntities(gs[i])]))
    IN  IF \E e \in Range(order) : ~(Layout(store[e]) \subseteq reg)
        THEN [res |-> Err("SerializeWorld"), canon |-> cn, bytes |-> <<>>]
        ELSE [res |-> Ok(0), canon |-> named,
              bytes |-> <<[ecs |-> [i \in 1..Len(order) |->
                                      [name |-> CanonName(named, order[i]),
                                       components |-> EncodeComponents(store[order[i]])]],
                           physics |-> [bodies |-> set, colliders |-> cols],
                           scene |-> [i \in 1..Len(gs) |-> EncodeGraph(gs[i], named)],
                           materials |-> mats]>>]

PairKeys(pairs) == {pairs[j][1] : j \in 1..Len(pairs)}

\* The decoded world: the entities at the ids Canon resolves their names to
DecodeWorld(bytes, cn, allocated) ==
    LET names == [i \in 1..Len(bytes.ecs) |-> bytes.ecs[i].name]
                     \o Flatten([i \in 1..Len(bytes.scene) |-> bytes.scene[i].nodes])
        resolved == Resolve(cn, names, allocated)
        IdOf(i) == CanonId(resolved.canon, bytes.ecs[i].name)
    IN  [canon |-> resolved.canon,
         ecs |-> [e \in 1..resolved.allocated |->
                     IF \E i \in 1..Len(bytes.ecs) : IdOf(i) = e
                     THEN DecodeComponents(
                              bytes.ecs[CHOOSE i \in 1..Len(bytes.ecs) : IdOf(i) = e].components)
                     ELSE Removed],
         bodies |-> bytes.physics.bodies,
         colliders |-> bytes.physics.colliders,
         graphs |-> [i \in 1..Len(bytes.scene) |-> DecodeGraph(bytes.scene[i], resolved.canon)],
         materials |-> bytes.materials]

\* world_from_bytes with a registry that skips the keys it does not know
\* (UnknownType::Ignore).
world_from_bytes_lenient(bytes, reg, cn, allocated) ==
    LET known == [bytes EXCEPT !.ecs =
                     [i \in 1..Len(bytes.ecs) |->
                         [bytes.ecs[i] EXCEPT !.components =
                             SelectSeq(@, LAMBDA pair : pair[1] \in reg)]]]
    IN  [res |-> Ok(0), world |-> <<DecodeWorld(known, cn, allocated)>>]

\* world_from_bytes: bincode back into a World through deserialize_ecs.  The
\* registry is a Registry::default(): a key it does not know is an error.
world_from_bytes(bytes, reg, cn, allocated) ==
    IF \E i \in 1..Len(bytes.ecs) : ~(PairKeys(bytes.ecs[i].components) \subseteq reg)
    THEN [res |-> Err("DeserializeWorld"), world |-> <<>>]
    ELSE [res |-> Ok(0), world |-> <<DecodeWorld(bytes, cn, allocated)>>]

\* ------------------------------------------------------------- operations
NoLast == [op |-> "none", arg |-> NoIndex, pre |-> EmptyGraph, ret |-> NoIndex,
           fails |-> {}, calls |-> <<>>, err |-> NoIndex, nodes |-> <<>>,
           stack |-> <<>>]

\* The inputs of the world operations.  Every rotation is a half turn about
\* an axis or the identity, so every product below is exact in f32.
QuatIdentity == Quat(0, 0, 0, 1)
QuatHalfTurnZ == Quat(0, 0, 1, 0)
QuatHalfTurnX == Quat(1, 0, 0, 0)
TransformIdentity == TransformNew(Vec3(0, 0, 0), QuatIdentity, Vec3(1, 1, 1))
TransformSet ==
    {TransformNew(Vec3(1, 0, 0), QuatIdentity, Vec3(1, 1, 1)),
     TransformNew(Vec3(0, 2, 0), QuatHalfTurnZ, Vec3(2, 2, 2)),
     TransformNew(Vec3(0, 0, 1), QuatHalfTurnX, Vec3(1, 2, 3))}
\* The pose a physics step gives a body, and the rotations add_rigid_body
\* may give it.
BodyTranslations == {Vec3(3, 0, 1)}
StepRotations == {QuatHalfTurnX}
BodyRotations == {QuatIdentity, QuatHalfTurnZ}
Moves == {Vec3(1, 0, 0)}
Entities == 1..(MaxEntities + 1)
\* Pairs of transforms whose matrix product is handed to entity_model_matrix.
GlobalPairs ==
    {<<TransformIdentity, TransformNew(Vec3(1, 0, 0), QuatIdentity, Vec3(1, 1, 1))>>,
     <<TransformNew(Vec3(0, 2, 0), QuatHalfTurnZ, Vec3(2, 2, 2)),
       TransformNew(Vec3(0, 0, 1), QuatHalfTurnX, Vec3(1, 2, 3))>>}

\* COMPONENT_REGISTRY as the lazy_static builds it
BuiltinKeys == {"name", "transform", "camera", "mesh", "skin", "light", "rigid_body"}

NoResult == [op |-> "none", entity |-> 0, graph |-> 0, index |-> NoIndex,
             global |-> Mat4Identity, scale |-> Vec3(1, 1, 1), ret |-> Ok(Mat4Identity),
             before |-> <<>>, prev |-> <<>>, pre |-> <<>>, order |-> <<>>]

\* ------------------------------------------------------------- state machine
\* crates/phantom_app/src/state.rs.  A state (a Box<dyn State>) is named by
\* the order in which it was boxed: 1 is the state given to new, the state a
\* handler returns inside Push or Switch takes the next number.  The machine
\* is [running, states, calls, created, ret, fuse]: running and states are the
\* fields of StateMachine, calls the callbacks made on the states so far, each
\* with the state that was on top of the stack when it was made (NoState for
\* an empty stack) and whether it returned Ok, created the number of states
\* boxed, ret the Result of the last method called ("Ok", "NoStatesPresent",
\* or "Err" for the error of a callback).  fuse is an input of the method
\* being called: the fuse-th callback it makes returns Err (0: none does).
NoState == 0

Requests == {"None", "Pop", "Push", "Switch", "Quit"}

\* StateMachine::new(initial_state)
StateMachineNew ==
    [running |-> FALSE, states |-> <<1>>, calls |-> <<>>, created |-> 1, ret |-> "Ok",
     fuse |-> 0]

is_running(m) == m.running

\* states.last(): the state on top of the stack
TopState(states) == IF states = <<>> THEN NoState ELSE states[Len(states)]

Returns(m, ret) == [m EXCEPT !.ret = ret]

\* a callback of the State trait made on a state, and what it returns
Callback(m, state, callback) ==
    [m EXCEPT !.calls = Append(@, [state |-> state, callback |-> callback,
                                   top |-> TopState(m.states), ok |-> m.fuse # 1]),
              !.fuse = IF @ > 0 THEN @ - 1 ELSE 0,
              !.ret = IF m.fuse # 1 THEN "Ok" ELSE "Err"]

\* active_state_mut()?.callback(..): the callback on the top state, or
\* NoStatesPresent
OnActiveState(m, callback) ==
    IF m.states = <<>>
    THEN Returns(m, "NoStatesPresent")
    ELSE Callback(m, TopState(m.states), callback)

\* StateMachine::start
start(m) ==
    IF m.running
    THEN Returns(m, "Ok")
    ELSE OnActiveState([m EXCEPT !.running = TRUE], "on_start")

\* if let Some(mut state) = self.states.pop() { state.on_stop(resources)?; }
PopAndStop(m) ==
    IF m.states = <<>>
    THEN Returns(m, "Ok")
    ELSE Callback([m EXCEPT !.states = SubSeq(@, 1, Len(@) - 1)],
                  TopState(m.states), "on_stop")

\* self.states.push(state); self.active_state_mut()?.on_start(resources), the
\* state being the one the handler boxed
PushAndStart(m) ==
    OnActiveState([m EXCEPT !.states = Append(@, m.created + 1),
                            !.created = m.created + 1], "on_start")

\* StateMachine::switch
switch(m) ==
    IF ~m.running
    THEN Returns(m, "Ok")
    ELSE LET popped == PopAndStop(m)
         IN  IF popped.ret # "Ok" THEN popped ELSE PushAndStart(popped)

\* StateMachine::push
push(m) ==
    IF ~m.running
    THEN Returns(m, "Ok")
    ELSE LET paused == IF m.states = <<>>
                       THEN Returns(m, "Ok")
                       ELSE Callback(m, TopState(m.states), "on_pause")
         IN  IF paused.ret # "Ok" THEN paused ELSE PushAndStart(paused)

\* StateMachine::pop
pop(m) ==
    IF ~m.running
    THEN Returns(m, "Ok")
    ELSE LET popped == PopAndStop(m)
         IN  IF popped.ret # "Ok" THEN popped
             ELSE IF popped.states # <<>>
             THEN Callback(popped, TopState(popped.states), "on_resume")
             ELSE Returns([popped EXCEPT !.running = FALSE], "Ok")

\* the loop of StateMachine::stop: the states popped and stopped, top first,
\* until one fails to stop
RECURSIVE StopAll(_)
StopAll(m) ==
    IF m.states = <<>> THEN Returns(m, "Ok")
    ELSE LET popped == PopAndStop(m)
         IN  IF popped.ret # "Ok" THEN popped ELSE StopAll(popped)

\* StateMachine::stop
stop(m) ==
    IF ~m.running
    THEN Returns(m, "Ok")
    ELSE LET stopped == StopAll(m)
         IN  IF stopped.ret # "Ok" THEN stopped
             ELSE [stopped EXCEPT !.running = FALSE]

\* StateMachine::transition
transition(m, request) ==
    IF ~m.running THEN Returns(m, "Ok")
    ELSE CASE request = "None" -> Returns(m, "Ok")
           [] request = "Pop" -> pop(m)
           [] request = "Push" -> push(m)
           [] request = "Switch" -> switch(m)
           [] request = "Quit" -> stop(m)

\* The body shared by handle_event, update, update_gui, on_key and the other
\* dispatching methods: the callback on the top state, then the transition it
\* asked for.
Dispatch(m, callback, request) ==
    IF ~m.running
    THEN Returns(m, "Ok")
    ELSE LET called == OnActiveState(m, callback)
         IN  IF called.ret # "Ok" THEN called ELSE transition(called, request)

handle_event(m, request) == Dispatch(m, "on_event", request)

update(m, request) == Dispatch(m, "update", request)

update_gui(m, request) == Dispatch(m, "update_gui", request)

on_key(m, request) == Dispatch(m, "on_key", request)

\* The calls run_loop makes on the machine for one event: start when the
\* machine is not running, handle_event unless the gui captured the event,
\* update_gui and update on MainEventsCleared, on_key on a KeyboardInput, stop
\* on LoopDestroyed; each call is followed by ?, so the first Err ends the iteration.  requests[i]
\* is what the handler of the i-th dispatching call returns.  No gamepad is
\* connected (gilrs.next_event() is None) and the renderer does not fail.
Events == {"MainEventsCleared", "KeyboardInput", "LoopDestroyed", "Other"}

RunLoopCallbacks(gui_captured_event, event) ==
    (IF gui_captured_event THEN <<>> ELSE <<"on_event">>)
    \o (CASE event = "MainEventsCleared" -> <<"update_gui", "update">>
          [] event = "KeyboardInput" -> <<"on_key">>
          [] OTHER -> <<>>)

RECURSIVE RunLoopDispatch(_, _, _, _)
RunLoopDispatch(m, callbacks, requests, i) ==
    IF i > Len(callbacks) \/ m.ret # "Ok"
    THEN m
    ELSE RunLoopDispatch(Dispatch(m, callbacks[i], requests[i]), callbacks, requests, i + 1)

run_loop(m, gui_captured_event, event, requests) ==
    LET started == IF ~is_running(m) THEN start(m) ELSE Returns(m, "Ok")
        dispatched == RunLoopDispatch(started, RunLoopCallbacks(gui_captured_event, event),
                                      requests, 1)
    IN  IF event = "LoopDestroyed" /\ dispatched.ret = "Ok"
        THEN stop(dispatched)
        ELSE dispatched

\* ------------------------------------------------------------- command list
\* apps/editor/src/commands.rs.  A command (a Box<dyn Command>) is
\* [id, undoable]: id is the order in which it was boxed, undoable what its
\* is_undoable returns.  Whether its execute or undo returns Ok is decided at
\* each call.  The list is its three vectors together with runs, the calls
\* made on commands so far: [id, callback, by, ok, batch], where by is the
\* method of the list that made the call and batch the ids that were pending
\* when execute_pending_commands began (<<>> for the other methods); boxed
\* counts the commands boxed, and op is the last method called: its name, the
\* command it was given, the vectors and the number of runs it found, and
\* whether it returned Ok.
NoCommand == [id |-> 0, undoable |-> FALSE]

NoOp == [name |-> "none", command |-> NoCommand, pending_commands |-> <<>>,
         undo_commands |-> <<>>, redo_commands |-> <<>>, ran |-> 0, ok |-> TRUE]

\* CommandList::default()
CommandListDefault ==
    [pending_commands |-> <<>>, undo_commands |-> <<>>, redo_commands |-> <<>>,
     runs |-> <<>>, boxed |-> 0, op |-> NoOp]

Ids(cs) == [i \in 1..Len(cs) |-> cs[i].id]

\* a method of the list is entered
Method(l, name, command) ==
    [l EXCEPT !.op = [name |-> name, command |-> command,
                      pending_commands |-> l.pending_commands,
                      undo_commands |-> l.undo_commands,
                      redo_commands |-> l.redo_commands,
                      ran |-> Len(l.runs), ok |-> TRUE]]

\* a call of execute or undo on a command
Ran(l, command, callback, by, ok, batch) ==
    [l EXCEPT !.runs = Append(@, [id |-> command.id, callback |-> callback,
                                  by |-> by, ok |-> ok, batch |-> batch])]

\* the ? after a call that returned Err
Failed(l) == [l EXCEPT !.op.ok = FALSE]

has_undo_commands(l) == l.undo_commands # <<>>

has_redo_commands(l) == l.redo_commands # <<>>

\* CommandList::queue_command
queue_command(l, command) ==
    [Method(l, "queue_command", command) EXCEPT !.pending_commands = Append(@, command)]

\* The body of CommandList::execute: command.execute(resources)? returns Ok
\* when ok; by and batch say on whose behalf it runs.
ExecuteBody(l, command, ok, by, batch) ==
    LET ran == Ran(l, command, "execute", by, ok, batch)
    IN  IF ~ok THEN Failed(ran)
        ELSE IF command.undoable
             THEN [ran EXCEPT !.undo_commands = Append(@, command),
                              !.redo_commands = <<>>]
             ELSE ran

\* CommandList::execute
execute(l, command, ok) ==
    ExecuteBody(Method(l, "execute", command), command, ok, "execute", <<>>)

\* try_for_each over the drained commands: the first Err ends it
RECURSIVE TryForEach(_, _, _, _)
TryForEach(l, drained, i, fail) ==
    IF i > Len(drained) \/ ~l.op.ok
    THEN l
    ELSE TryForEach(ExecuteBody(l, drained[i], i # fail, "pending", Ids(drained)),
                    drained, i + 1, fail)

\* execute_pending_commands that puts the commands behind a failing one back
\* into the queue.
execute_pending_commands_requeueing(l, fail) ==
    LET entered == Method(l, "execute_pending_commands", NoCommand)
        drained == l.pending_commands
        done == TryForEach([entered EXCEPT !.pending_commands = <<>>], drained, 1, fail)
    IN  IF done.op.ok THEN done
        ELSE [done EXCEPT !.pending_commands = SubSeq(drained, fail + 1, Len(drained))]

\* CommandList::execute_pending_commands: the queue is drained into a vector
\* first, then the commands are executed; the execute of the fail-th command
\* returns Err (fail = 0: none does).
execute_pending_commands(l, fail) ==
    LET entered == Method(l, "execute_pending_commands", NoCommand)
        drained == l.pending_commands
    IN  TryForEach([entered EXCEPT !.pending_commands = <<>>], drained, 1, fail)

\* CommandList::undo: command.undo(resources)? returns Ok when ok
undo(l, ok) ==
    LET entered == Method(l, "undo", NoCommand)
    IN  IF l.undo_commands = <<>> THEN entered
        ELSE LET command == l.undo_commands[Len(l.undo_commands)]
                 popped == [entered EXCEPT !.undo_commands = SubSeq(@, 1, Len(@) - 1)]
                 ran == Ran(popped, command, "undo", "undo", ok, <<>>)
             IN  IF ~ok THEN Failed(ran)
                 ELSE [ran EXCEPT !.redo_commands = Append(@, command)]

\* CommandList::redo: command.execute(resources)? returns Ok when ok
redo(l, ok) ==
    LET entered == Method(l, "redo", NoCommand)
    IN  IF l.redo_commands = <<>> THEN entered
        ELSE LET command == l.redo_commands[Len(l.redo_commands)]
                 popped == [entered EXCEPT !.redo_commands = SubSeq(@, 1, Len(@) - 1)]
                 ran == Ran(popped, command, "execute", "redo", ok, <<>>)
             IN  IF ~ok THEN Failed(ran)
                 ELSE [ran EXCEPT !.undo_commands = Append(@, command)]

\* World::default(): an empty ECS, no bodies, and Scene::default() with one
\* empty graph; SceneGraph::new() for the graph under test.
Init ==
    /\ scenegraph = EmptyGraph
    /\ nextUid = 1
    /\ last = NoLast
    /\ ecs = <<>>
    /\ bodies = <<>>
    /\ graphs = <<EmptyGraph>>
    /\ result = NoResult
    /\ colliders = <<>>
    /\ materials = <<>>
    /\ registry = BuiltinKeys
    /\ canon = {}
    /\ blob = <<>>
    /\ machine = StateMachineNew
    /\ commands = CommandListDefault

AddRootNode(v) ==
    /\ nextUid <= MaxAdds
    /\ LET r == add_root_node(scenegraph, [uid |-> nextUid, value |-> v])
       IN  /\ scenegraph' = r.graph
           /\ last' = [NoLast EXCEPT !.op = "add_root_node", !.pre = scenegraph,
                                     !.ret = r.index]
    /\ nextUid' = nextUid + 1
    /\ UNCHANGED worldVars

AddChild(parent_index, v) ==
    /\ nextUid <= MaxAdds
    /\ parent_index \in NodeSet(scenegraph)
    /\ LET r == add_child(scenegraph, parent_index, [uid |-> nextUid, value |-> v])
       IN  /\ scenegraph' = r.graph
           /\ last' = [NoLast EXCEPT !.op = "add_child", !.arg = parent_index,
                                     !.pre = scenegraph, !.ret = r.index]
    /\ nextUid' = nextUid + 1
    /\ UNCHANGED worldVars

RemoveNode(node_index) ==
    /\ scenegraph' = remove_node(scenegraph, node_index)
    /\ last' = [NoLast EXCEPT !.op = "remove_node", !.arg = node_index,
                              !.pre = scenegraph]
    /\ UNCHANGED <<nextUid, worldVars>>

Walk(fails) ==
    /\ LET r == walk(scenegraph, fails)
       IN  last' = [NoLast EXCEPT !.op = "walk", !.pre = scenegraph, !.fails = fails,
                                  !.calls = r.calls, !.err = r.err]
    /\ UNCHANGED <<scenegraph, nextUid, worldVars>>

CollectNodes ==
    /\ last' = [NoLast EXCEPT !.op = "collect_nodes", !.pre = scenegraph,
                              !.nodes = collect_nodes(scenegraph)]
    /\ UNCHANGED <<scenegraph, nextUid, worldVars>>

\* add_root_node of a payload that is the same for every node
AddNode ==
    /\ number_of_nodes(scenegraph) < MaxEdgeNodes
    /\ scenegraph' = add_root_node(scenegraph, [uid |-> 0, value |-> 1]).graph
    /\ last' = [NoLast EXCEPT !.op = "add_root_node"]
    /\ UNCHANGED <<nextUid, worldVars>>

\* add_edge between two nodes of the graph, whatever edges there are already
AddEdge(parent_node, node) ==
    /\ Len(scenegraph.edges) < MaxEdges
    /\ parent_node \in NodeSet(scenegraph)
    /\ node \in NodeSet(scenegraph)
    /\ scenegraph' = add_edge(scenegraph, parent_node, node)
    /\ last' = [NoLast EXCEPT !.op = "add_edge"]
    /\ UNCHANGED <<nextUid, worldVars>>

\* remove_node(node_index) is entered: the petgraph removal of the index
RemoveNodeCall(node_index) ==
    /\ scenegraph' = GraphRemoveNode(scenegraph, node_index)
    /\ last' = [NoLast EXCEPT !.op = "remove_node_call", !.arg = node_index,
                              !.pre = scenegraph, !.stack = <<node_index>>]
    /\ UNCHANGED <<nextUid, worldVars>>

\* the call in progress takes one turn of its loop; the outermost call
\* returning ends the remove_node
RemoveNodeStep ==
    /\ last.stack # <<>>
    /\ LET r == remove_node_step(scenegraph, last.stack)
       IN  /\ scenegraph' = r.graph
           /\ last' = [last EXCEPT !.stack = r.stack,
                                   !.op = IF r.stack = <<>> THEN "remove_node" ELSE @]
    /\ UNCHANGED <<nextUid, worldVars>>

\* Nothing else runs while a remove_node is in progress
Idle == last.stack = <<>>

\* Graphs with any edges, and remove_node taken turn by turn.
NextRemoval ==
    \/ Idle /\ AddNode
    \/ Idle /\ \E a, b \in 0..(MaxEdgeNodes - 1) : AddEdge(a, b)
    \/ Idle /\ \E n \in 0..MaxEdgeNodes : RemoveNodeCall(n)
    \/ RemoveNodeStep

\* A call that has begun goes on running
SpecRemoval == Init /\ [][NextRemoval]_vars /\ WF_vars(RemoveNodeStep)

FindNode(item) ==
    /\ last' = [NoLast EXCEPT !.op = "find_node", !.arg = item, !.pre = scenegraph,
                              !.ret = find_node(scenegraph, item)]
    /\ UNCHANGED <<scenegraph, nextUid, worldVars>>

Next ==
    \/ \E v \in Values : AddRootNode(v)
    \/ \E v \in Values : FindNode(v)
    \/ \E p \in 0..(MaxAdds - 1), v \in Values : AddChild(p, v)
    \/ \E n \in 0..MaxAdds : RemoveNode(n)
    \/ \E fails \in {f \in SUBSET NodeSet(scenegraph) : Cardinality(f) <= MaxFails} :
           Walk(fails)
    \/ CollectNodes

Spec == Init /\ [][Next]_vars

\* ------------------------------------------------------------- World operations
SceneNodes == LET Count[i \in 0..Len(graphs)] ==
                      IF i = 0 THEN 0 ELSE Count[i - 1] + number_of_nodes(graphs[i])
              IN  Count[Len(graphs)]

\* ecs.push((transform,)) or a push without a Transform
EcsPush(transform) ==
    /\ Len(ecs) < MaxEntities
    /\ ecs' = Append(ecs, [NoComponents EXCEPT !.transform = transform])
    /\ result' = NoResult
    /\ UNCHANGED <<bodies, graphs, graphVars, restVars>>

\* scene.graphs.push(EntitySceneGraph::default())
PushGraph ==
    /\ Len(graphs) < MaxGraphs
    /\ graphs' = Append(graphs, EmptyGraph)
    /\ result' = NoResult
    /\ UNCHANGED <<ecs, bodies, graphVars, restVars>>

\* scene.graphs[gi].add_root_node(entity)
SceneAddRootNode(gi, entity) ==
    /\ SceneNodes < MaxSceneNodes
    /\ gi \in 1..Len(graphs)
    /\ Alive(ecs, entity)
    /\ graphs' = [graphs EXCEPT ![gi] = add_root_node(@, [uid |-> 0, value |-> entity]).graph]
    /\ result' = NoResult
    /\ UNCHANGED <<ecs, bodies, graphVars, restVars>>

\* scene.graphs[gi].add_child(parent_index, entity)
SceneAddChild(gi, parent_index, entity) ==
    /\ SceneNodes < MaxSceneNodes
    /\ gi \in 1..Len(graphs)
    /\ parent_index \in NodeSet(graphs[gi])
    /\ Alive(ecs, entity)
    /\ graphs' = [graphs EXCEPT
                     ![gi] = add_child(@, parent_index, [uid |-> 0, value |-> entity]).graph]
    /\ result' = NoResult
    /\ UNCHANGED <<ecs, bodies, graphVars, restVars>>

InCoord(v) == \A c \in 1..3 : v[c] \in (0 - MaxCoord)..MaxCoord

\* update_player: transform.translation += translation
UpdatePlayer(entity, move) ==
    /\ HasTransform(ecs, entity)
    /\ LET t == ecs[entity].transform[1]
           to == Vec3(t.translation[1] + move[1], t.translation[2] + move[2],
                      t.translation[3] + move[3])
       IN  /\ InCoord(to)
           /\ ecs' = [ecs EXCEPT ![entity].transform = <<[t EXCEPT !.translation = to]>>]
    /\ result' = NoResult
    /\ UNCHANGED <<bodies, graphs, graphVars, restVars>>

\* World::add_rigid_body: the body starts at the translation of the entity's
\* global transform; its rotation is the Q factor of a QR decomposition, which
\* this model leaves open (any of BodyRotations).
AddRigidBody(entity, rotation) ==
    /\ Len(bodies) < MaxBodies
    /\ LET m == entity_global_transform_matrix(ecs, graphs, entity)
       IN  IF ~m.ok
           THEN /\ result' = [NoResult EXCEPT !.op = "add_rigid_body", !.entity = entity,
                                              !.ret = m]
                /\ UNCHANGED <<ecs, bodies>>
           ELSE /\ bodies' = Append(bodies, [live |-> TRUE,
                                             translation |-> DecomposeTranslation(m.val),
                                             rotation |-> rotation, awake |-> TRUE])
                /\ ecs' = [ecs EXCEPT
                              ![entity].rigid_body = <<RigidBodyNew(Len(bodies) + 1)>>]
                /\ result' = [NoResult EXCEPT !.op = "add_rigid_body", !.entity = entity]
    /\ UNCHANGED <<graphs, graphVars, restVars>>

\* World::tick: physics.update moves at most one live body to a new pose and
\* may put it to sleep, then sync_all_rigid_bodies.
Tick(handle, translation, rotation, awake) ==
    /\ handle \in 0..Len(bodies)
    /\ handle # 0 => bodies[handle].live
    /\ LET moved == IF handle = 0 THEN bodies
                    ELSE [bodies EXCEPT ![handle].translation = translation,
                                        ![handle].rotation = rotation,
                                        ![handle].awake = awake]
       IN  /\ bodies' = moved
           /\ ecs' = sync_all_rigid_bodies(ecs, moved)
    /\ result' = NoResult
    /\ UNCHANGED <<graphs, graphVars, restVars>>

\* World::sync_rigid_body_to_transform
SyncRigidBodyToTransform(entity) ==
    /\ LET r == sync_rigid_body_to_transform(ecs, bodies, entity)
       IN  /\ bodies' = r.bodies
           /\ result' = [NoResult EXCEPT !.op = "sync_rigid_body_to_transform",
                                         !.entity = entity, !.ret = r.res,
                                         !.pre = <<ecs>>,
                                         !.before =
                                             IF HasRigidBody(ecs, entity)
                                                /\ BodyLive(bodies, ecs[entity].rigid_body[1].handle)
                                             THEN <<bodies[ecs[entity].rigid_body[1].handle]>>
                                             ELSE <<>>]
    /\ UNCHANGED <<ecs, graphs, graphVars, restVars>>

\* World::global_transform(graph, index)
GlobalTransform(gi, index) ==
    /\ gi \in 1..Len(graphs)
    /\ index \in NodeSet(graphs[gi])
    /\ result' = [NoResult EXCEPT !.op = "global_transform", !.graph = gi, !.index = index,
                                  !.ret = global_transform(ecs, graphs[gi], index)]
    /\ UNCHANGED <<ecs, bodies, graphs, graphVars, restVars>>

\* World::entity_global_transform_matrix(entity)
EntityGlobalTransformMatrix(entity) ==
    /\ result' = [NoResult EXCEPT !.op = "entity_global_transform_matrix",
                                  !.entity = entity,
                                  !.ret = entity_global_transform_matrix(ecs, graphs, entity)]
    /\ UNCHANGED <<ecs, bodies, graphs, graphVars, restVars>>

\* World::entity_model_matrix(entity, global_transform), called with the
\* product of the matrices of two transforms a and b.
EntityModelMatrix(entity, a, b) ==
    /\ LET global == MatMul(matrix(a), matrix(b))
       IN  result' = [NoResult EXCEPT
                         !.op = "entity_model_matrix", !.entity = entity,
                         !.global = global,
                         !.scale = Vec3(a.scale[1] * b.scale[1], a.scale[2] * b.scale[2],
                                        a.scale[3] * b.scale[3]),
                         !.ret = entity_model_matrix(ecs, bodies, entity, global)]
    /\ UNCHANGED <<ecs, bodies, graphs, graphVars, restVars>>

\* World::sync_transform_to_rigid_body.  prev is the call before this one
\* when that was a sync_rigid_body_to_transform, pre the ECS before this call.
SyncTransformToRigidBody(entity) ==
    /\ LET r == sync_transform_to_rigid_body(ecs, bodies, entity)
       IN  /\ ecs' = r.ecs
           /\ bodies' = r.bodies
           /\ result' = [NoResult EXCEPT !.op = "sync_transform_to_rigid_body",
                                         !.entity = entity, !.ret = r.res,
                                         !.prev =
                                             IF result.op = "sync_rigid_body_to_transform"
                                             THEN <<result.op, result.entity, result.ret.ok>>
                                             ELSE <<>>,
                                         !.pre = <<ecs>>,
                                         !.before =
                                             IF HasRigidBody(ecs, entity)
                                                /\ BodyLive(bodies, ecs[entity].rigid_body[1].handle)
                                             THEN <<bodies[ecs[entity].rigid_body[1].handle]>>
                                             ELSE <<>>]
    /\ UNCHANGED <<graphs, graphVars, restVars>>

\* World::sync_all_rigid_bodies
SyncAllRigidBodies ==
    /\ ecs' = sync_all_rigid_bodies(ecs, bodies)
    /\ result' = [NoResult EXCEPT !.op = "sync_all_rigid_bodies", !.pre = <<ecs>>]
    /\ UNCHANGED <<bodies, graphs, graphVars, restVars>>

\* A body removed from the physics bridge behind the World's back:
\* world.physics.remove_rigid_body(handle)
PhysicsRemoveRigidBody(handle) ==
    /\ BodyLive(bodies, handle)
    /\ bodies' = physics_remove_rigid_body(bodies, handle)
    /\ result' = NoResult
    /\ UNCHANGED <<ecs, graphs, graphVars, restVars>>

\* The entities a query for Camera yields
CameraEntities(store) == {e \in 1..Len(store) : store[e].live /\ store[e].camera # <<>>}

\* The orders in which a query may yield the entities of S
Orders(S) ==
    {o \in [1..Cardinality(S) -> S] : \A i, j \in 1..Cardinality(S) : i # j => o[i] # o[j]}

\* World::add_default_camera
AddDefaultCamera ==
    /\ Len(ecs) < MaxEntities + 2
    /\ SceneNodes < MaxSceneNodes
    /\ LET r == add_default_camera(ecs, graphs)
       IN  /\ ecs' = r.ecs
           /\ graphs' = r.graphs
           /\ result' = [NoResult EXCEPT !.op = "add_default_camera", !.ret = r.res]
    /\ UNCHANGED <<bodies, graphVars, restVars>>

\* World::clear
Clear ==
    /\ Len(ecs) <= MaxEntities
    /\ LET r == clear(ecs)
       IN  /\ ecs' = r.ecs
           /\ graphs' = r.graphs
           /\ result' = [NoResult EXCEPT !.op = "clear", !.ret = r.res,
                                         !.before = <<graphs>>, !.pre = <<ecs>>]
    /\ materials' = <<>>
    /\ UNCHANGED <<bodies, graphVars, appVars, colliders, registry, canon, blob>>

\* World::active_camera
ActiveCamera(order) ==
    /\ result' = [NoResult EXCEPT !.op = "active_camera", !.order = order,
                                  !.ret = active_camera(ecs, order)]
    /\ UNCHANGED <<ecs, bodies, graphs, graphVars, restVars>>

\* activate_first_person(entity): the active camera is disabled and the
\* entity gets an enabled Camera of its own.
ActivateFirstPerson(entity, order) ==
    /\ Alive(ecs, entity)
    /\ LET camera_entity == active_camera(ecs, order)
       IN  IF ~camera_entity.ok
           THEN /\ result' = [NoResult EXCEPT !.op = "activate_first_person",
                                              !.entity = entity, !.ret = camera_entity]
                /\ UNCHANGED ecs
           ELSE /\ ecs' = [[ecs EXCEPT ![camera_entity.val].camera[1].enabled = FALSE]
                              EXCEPT ![entity].camera =
                                         <<[name |-> "Player Camera", enabled |-> TRUE]>>]
                /\ result' = [NoResult EXCEPT !.op = "activate_first_person",
                                              !.entity = entity]
    /\ UNCHANGED <<bodies, graphs, graphVars, restVars>>

\* An entity that renders a mesh: ecs.push((transform, MeshRender { name }))
EcsPushMesh(transform, name) ==
    /\ Len(ecs) < MaxEntities
    /\ ecs' = Append(ecs, [NoComponents EXCEPT !.transform = transform, !.mesh = <<name>>])
    /\ result' = NoResult
    /\ UNCHANGED <<bodies, graphs, graphVars, restVars>>

\* World::add_cylinder_collider
AddCylinderCollider(entity, half_height, radius) ==
    /\ Len(colliders) < MaxColliders
    /\ LET r == add_cylinder_collider(ecs, bodies, colliders, entity, half_height, radius)
       IN  /\ ecs' = r.ecs
           /\ colliders' = r.colliders
           /\ result' = [NoResult EXCEPT !.op = "add_cylinder_collider",
                                         !.entity = entity, !.ret = r.res]
    /\ UNCHANGED <<bodies, graphs, graphVars, appVars, materials, registry, canon, blob>>

\* World::add_box_collider
AddBoxCollider(entity) ==
    /\ Len(colliders) < MaxColliders
    /\ LET r == add_box_collider(ecs, bodies, colliders, entity)
       IN  /\ ecs' = r.ecs
           /\ colliders' = r.colliders
           /\ result' = [NoResult EXCEPT !.op = "add_box_collider",
                                         !.entity = entity, !.ret = r.res]
    /\ UNCHANGED <<bodies, graphs, graphVars, appVars, materials, registry, canon, blob>>

\* The scene and its transforms: building the graphs and the transform queries.
NextWorld ==
    \/ \E t \in {<<>>} \cup {<<x>> : x \in TransformSet} : EcsPush(t)
    \/ PushGraph
    \/ \E gi \in 1..MaxGraphs, e \in Entities : SceneAddRootNode(gi, e)
    \/ \E gi \in 1..MaxGraphs, p \in 0..(MaxSceneNodes - 1), e \in Entities :
           SceneAddChild(gi, p, e)
    \/ \E gi \in 1..MaxGraphs, i \in 0..(MaxSceneNodes - 1) : GlobalTransform(gi, i)
    \/ \E e \in Entities : EntityGlobalTransformMatrix(e)

SpecWorld == Init /\ [][NextWorld]_vars

\* The Transform entities are pushed with where bodies are involved
SyncTransforms ==
    {TransformNew(Vec3(0, 1, 0), QuatHalfTurnZ, Vec3(2, 2, 2))}
\* Where a physics step leaves a body: within reach of a player move.
SyncTranslations == {Vec3(0, 0, 1)}

\* The physics bridge: entities, their bodies, and the synchronisation between
\* the two.  The entities are in no scene graph here.
NextPhysics ==
    \/ \E t \in {<<>>} \cup {<<x>> : x \in SyncTransforms} : EcsPush(t)
    \/ \E e \in Entities, m \in Moves : UpdatePlayer(e, m)
    \/ \E e \in Entities, r \in BodyRotations : AddRigidBody(e, r)
    \/ \E h \in 0..MaxBodies, t \in BodyTranslations, r \in StepRotations, a \in BOOLEAN :
           Tick(h, t, r, a)
    \/ \E e \in Entities : SyncRigidBodyToTransform(e)
    \/ \E e \in Entities, ab \in GlobalPairs : EntityModelMatrix(e, ab[1], ab[2])

SpecPhysics == Init /\ [][NextPhysics]_vars

\* The two directions of the synchronisation between Transforms and bodies.
NextSync ==
    \/ \E t \in {<<x>> : x \in SyncTransforms} : EcsPush(t)
    \/ \E e \in Entities, m \in Moves : UpdatePlayer(e, m)
    \/ \E e \in Entities, r \in BodyRotations : AddRigidBody(e, r)
    \/ \E h \in 0..MaxBodies, t \in SyncTranslations, r \in StepRotations, a \in BOOLEAN :
           Tick(h, t, r, a)
    \/ \E h \in 1..MaxBodies : PhysicsRemoveRigidBody(h)
    \/ \E e \in Entities : SyncRigidBodyToTransform(e)
    \/ \E e \in Entities : SyncTransformToRigidBody(e)
    \/ SyncAllRigidBodies

SpecSync == Init /\ [][NextSync]_vars

\* The largest entity id the process has handed out
Allocated(store, cn) ==
    LET ids == {Len(store)} \cup {p[2] : p \in cn}
    IN  CHOOSE n \in ids : \A q \in ids : q <= n

\* An entity is pushed and made a root of the default graph, as the game does
\* with its player; `extra` is the component of the registered-later type.
SpawnRoot(extra) ==
    /\ Len(ecs) < MaxSaved
    /\ graphs # <<>>
    /\ ecs' = Append(ecs, [NoComponents EXCEPT !.transform = <<TransformIdentity>>,
                                               !.extra = extra])
    /\ graphs' = [graphs EXCEPT
                     ![1] = add_root_node(@, [uid |-> 0, value |-> Len(ecs) + 1]).graph]
    /\ result' = NoResult
    /\ UNCHANGED <<bodies, graphVars, restVars>>

\* An entity is pushed and made a child of a node of the default graph
SpawnChild(parent_index) ==
    /\ Len(ecs) < MaxSaved
    /\ graphs # <<>>
    /\ parent_index \in NodeSet(graphs[1])
    /\ ecs' = Append(ecs, [NoComponents EXCEPT !.transform = <<TransformIdentity>>])
    /\ graphs' = [graphs EXCEPT
                     ![1] = add_child(@, parent_index,
                                      [uid |-> 0, value |-> Len(ecs) + 1]).graph]
    /\ result' = NoResult
    /\ UNCHANGED <<bodies, graphVars, restVars>>

\* scene.graphs[0].remove_node(node_index)
SceneRemoveNode(node_index) ==
    /\ graphs # <<>>
    /\ node_index \in NodeSet(graphs[1])
    /\ graphs' = [graphs EXCEPT ![1] = remove_node(@, node_index)]
    /\ result' = NoResult
    /\ UNCHANGED <<ecs, bodies, graphVars, restVars>>

\* register_component::<T>(key)
RegisterComponent(key) ==
    /\ key \notin registry
    /\ registry' = register_component(registry, key)
    /\ result' = NoResult
    /\ UNCHANGED <<ecs, bodies, graphs, graphVars, appVars, colliders, materials, canon, blob>>

\* World::as_bytes, the bytes kept (World::save) when it succeeds
AsBytes ==
    LET r == world_as_bytes(ecs, bodies, colliders, graphs, materials, registry, canon)
    IN  /\ result' = [NoResult EXCEPT !.op = "as_bytes", !.ret = r.res]
        /\ canon' = r.canon
        /\ blob' = IF r.res.ok THEN r.bytes ELSE blob
        /\ UNCHANGED <<ecs, bodies, graphs, graphVars, appVars, colliders, materials, registry>>

\* World::from_bytes on the kept bytes, the world replaced by the result when
\* it succeeds (World::load)
FromBytes ==
    /\ blob # <<>>
    /\ LET r == world_from_bytes(blob[1], registry, canon, Allocated(ecs, canon))
       IN  /\ result' = [NoResult EXCEPT !.op = "from_bytes", !.ret = r.res]
           /\ IF r.res.ok
              THEN /\ ecs' = r.world[1].ecs
                   /\ bodies' = r.world[1].bodies
                   /\ colliders' = r.world[1].colliders
                   /\ graphs' = r.world[1].graphs
                   /\ materials' = r.world[1].materials
                   /\ canon' = r.world[1].canon
              ELSE UNCHANGED <<ecs, bodies, colliders, graphs, materials, canon>>
    /\ UNCHANGED <<graphVars, appVars, registry, blob>>

\* The process ends and another starts: World::default(), the registry and
\* the Canon as their statics initialise them; the saved bytes remain.
Restart ==
    /\ blob # <<>>
    /\ ecs' = <<>>
    /\ bodies' = <<>>
    /\ graphs' = SceneDefault.graphs
    /\ colliders' = <<>>
    /\ materials' = <<>>
    /\ registry' = BuiltinKeys
    /\ canon' = {}
    /\ result' = NoResult
    /\ UNCHANGED <<graphVars, appVars, blob>>

\* World::from_bytes(&world.as_bytes()?): the world is replaced by what its
\* own bytes decode to; the bytes are not kept.
RoundTrip ==
    LET saved == world_as_bytes(ecs, bodies, colliders, graphs, materials, registry, canon)
    IN  IF ~saved.res.ok
        THEN /\ result' = [NoResult EXCEPT !.op = "round_trip", !.ret = saved.res]
             /\ UNCHANGED <<ecs, bodies, graphs, graphVars, restVars>>
        ELSE LET r == world_from_bytes(saved.bytes[1], registry, saved.canon,
                                       Allocated(ecs, saved.canon))
             IN  /\ result' = [NoResult EXCEPT !.op = "round_trip", !.ret = r.res]
                 /\ ecs' = r.world[1].ecs
                 /\ bodies' = r.world[1].bodies
                 /\ colliders' = r.world[1].colliders
                 /\ graphs' = r.world[1].graphs
                 /\ materials' = r.world[1].materials
                 /\ canon' = r.world[1].canon
                 /\ UNCHANGED <<graphVars, appVars, registry, blob>>

\* A world whose graph grows and shrinks, sent through its own bytes.
NextSerde ==
    \/ SpawnRoot(<<>>)
    \/ \E i \in 0..(MaxSaved - 1) : SpawnChild(i)
    \/ \E i \in 0..(MaxSaved - 1) : SceneRemoveNode(i)
    \/ RoundTrip

SpecSerde == Init /\ [][NextSerde]_vars

\* Saving in one process and loading in another, whose registry may differ.
NextRegistry ==
    \/ \E x \in {<<>>, <<1>>} : SpawnRoot(x)
    \/ RegisterComponent("extra")
    \/ AsBytes
    \/ FromBytes
    \/ Restart

SpecRegistry == Init /\ [][NextRegistry]_vars

\* ecs.remove(entity): the entity leaves the ECS; the graphs are not told.
EcsRemove(entity) ==
    /\ Alive(ecs, entity)
    /\ ecs' = [ecs EXCEPT ![entity] = Removed]
    /\ result' = NoResult
    /\ UNCHANGED <<bodies, graphs, graphVars, restVars>>

\* scene.graphs.clear(): a scene without a default graph
RemoveGraphs ==
    /\ graphs # <<>>
    /\ graphs' = <<>>
    /\ result' = NoResult
    /\ UNCHANGED <<ecs, bodies, graphVars, restVars>>

\* materials.push(material)
PushMaterial(material) ==
    /\ Len(materials) < MaxMaterials
    /\ materials' = Append(materials, material)
    /\ result' = NoResult
    /\ UNCHANGED <<ecs, bodies, graphs, graphVars, appVars, colliders, registry, canon, blob>>

\* World::material_at_index
MaterialAtIndex(index) ==
    /\ result' = [NoResult EXCEPT !.op = "material_at_index", !.index = index,
                                  !.ret = material_at_index(materials, index)]
    /\ UNCHANGED <<ecs, bodies, graphs, graphVars, restVars>>

\* Scene::default_scenegraph_mut
DefaultScenegraphMut ==
    /\ result' = [NoResult EXCEPT !.op = "default_scenegraph_mut",
                                  !.ret = default_scenegraph_mut(graphs)]
    /\ UNCHANGED <<ecs, bodies, graphs, graphVars, restVars>>

\* World::get_metadata
GetMetadata ==
    /\ result' = [NoResult EXCEPT !.op = "get_metadata", !.ret = get_metadata(ecs, graphs)]
    /\ UNCHANGED <<ecs, bodies, graphs, graphVars, restVars>>

\* World::flatten_scenegraphs
FlattenScenegraphs ==
    /\ result' = [NoResult EXCEPT !.op = "flatten_scenegraphs",
                                  !.ret = Ok(flatten_scenegraphs(graphs))]
    /\ UNCHANGED <<ecs, bodies, graphs, graphVars, restVars>>

\* What the renderer reads of the scene: the flattened graphs and the
\* metadata of the meshes.
NextOffsets ==
    \/ \E t \in {<<x>> : x \in SyncTransforms} : EcsPush(t)
    \/ \E t \in {<<x>> : x \in SyncTransforms} : EcsPushMesh(t, "cube")
    \/ PushGraph
    \/ \E gi \in 1..MaxGraphs, e \in Entities : SceneAddRootNode(gi, e)
    \/ \E gi \in 1..MaxGraphs, p \in 0..(MaxSceneNodes - 1), e \in Entities :
           SceneAddChild(gi, p, e)
    \/ FlattenScenegraphs
    \/ GetMetadata

SpecOffsets == Init /\ [][NextOffsets]_vars

\* The operations of the World that look something up, on worlds where the
\* thing may be missing.
NextLookup ==
    \/ \E t \in {<<>>} \cup {<<x>> : x \in SyncTransforms} : EcsPush(t)
    \/ \E t \in {<<x>> : x \in SyncTransforms} : EcsPushMesh(t, "cube")
    \/ \E e \in Entities : EcsRemove(e)
    \/ \E gi \in 1..MaxGraphs, e \in Entities : SceneAddRootNode(gi, e)
    \/ RemoveGraphs
    \/ PushMaterial("material")
    \/ \E i \in 0..MaxMaterials : MaterialAtIndex(i)
    \/ DefaultScenegraphMut
    \/ \E gi \in 1..MaxGraphs, i \in 0..(MaxSceneNodes - 1) : GlobalTransform(gi, i)
    \/ \E e \in Entities : EntityGlobalTransformMatrix(e)
    \/ GetMetadata

SpecLookup == Init /\ [][NextLookup]_vars

\* Colliders: free-standing, or attached to the body of an entity.
NextCollider ==
    \/ \E t \in {<<>>} \cup {<<x>> : x \in SyncTransforms} : EcsPush(t)
    \/ \E t \in {<<>>} \cup {<<x>> : x \in SyncTransforms} : EcsPushMesh(t, "cube")
    \/ \E e \in Entities, r \in BodyRotations : AddRigidBody(e, r)
    \/ \E e \in Entities : AddCylinderCollider(e, 1, 2)
    \/ \E e \in Entities : AddBoxCollider(e)

SpecCollider == Init /\ [][NextCollider]_vars

\* The lifecycle of the scene and the cameras in it.
NextScene ==
    \/ \E t \in {<<x>> : x \in SyncTransforms} : EcsPush(t)
    \/ PushGraph
    \/ \E gi \in 1..MaxGraphs, e \in Entities : SceneAddRootNode(gi, e)
    \/ AddDefaultCamera
    \/ \E e \in Entities, o \in Orders(CameraEntities(ecs)) : ActivateFirstPerson(e, o)
    \/ \E o \in Orders(CameraEntities(ecs)) : ActiveCamera(o)
    \/ Clear

SpecScene == Init /\ [][NextScene]_vars

\* ------------------------------------------------------------- reading a graph
\* The nodes reachable from the set S along edges, S included.
RECURSIVE ReachSet(_, _)
ReachSet(g, S) ==
    LET T == S \cup {e[2] : e \in {x \in Range(g.edges) : x[1] \in S}}
    IN  IF T = S THEN S ELSE ReachSet(g, T)

Subtree(g, n) == ReachSet(g, {n})
Descendants(g, n) == Subtree(g, n) \ {n}
UidAt(g, i) == g.nodes[i + 1].uid
Uids(g) == {g.nodes[i].uid : i \in 1..Len(g.nodes)}
InEdges(g, n) == {i \in 1..Len(g.edges) : g.edges[i][2] = n}
EdgesInRange(g) ==
    \A e \in Range(g.edges) : e[1] \in NodeSet(g) /\ e[2] \in NodeSet(g)

\* ------------------------------------------------------------- scene graph claims
IsForest(g) ==
    /\ EdgesInRange(g)
    /\ \A n \in NodeSet(g) : Cardinality(InEdges(g, n)) <= 1
    /\ \A n \in NodeSet(g) : n \notin ReachSet(g, {e[2] : e \in {x \in Range(g.edges) : x[1] = n}})

RemovedValid == last.op = "remove_node" /\ last.arg \in NodeSet(last.pre)

SubtreeUids(g, n) == {UidAt(g, i) : i \in Subtree(g, n)}

\* C1: remove_node(n) removes n and every descendant of n, and nothing else is
\* asked of the count: afterwards number_of_nodes() is the original count minus
\* the size of n's subtree, none of the subtree's nodes is left, and no edge
\* refers to a removed node.
C1_RemoveNodeRemovesSubtree ==
    RemovedValid =>
        /\ number_of_nodes(scenegraph)
             = number_of_nodes(last.pre) - Cardinality(Subtree(last.pre, last.arg))
        /\ Uids(scenegraph) \cap SubtreeUids(last.pre, last.arg) = {}
        /\ EdgesInRange(scenegraph)

\* C2: after any sequence of add_root_node, add_child on an existing parent and
\* remove_node, every node has at most one incoming edge and the edges form a
\* forest: no cycle, every edge between two nodes of the graph.
C2_AlwaysForest == IsForest(scenegraph)

C2_Witness ==
    /\ last.op = "remove_node"
    /\ Len(scenegraph.edges) >= 2
    /\ \E n \in NodeSet(scenegraph) : Cardinality(InEdges(scenegraph, n)) = 1

\* The roots under which node n lies, read from the edges alone.
RootsAbove(g, n) ==
    {r \in NodeSet(g) : InEdges(g, r) = {} /\ n \in Subtree(g, r)}

\* C3: root_node_indices() is exactly the nodes without an incoming edge, each
\* listed once, and every node lies under exactly one of them, so the roots
\* with their descendants are the whole node set without duplicates.
C3_RootsComplete ==
    LET roots == root_node_indices(scenegraph)
    IN  /\ Range(roots) = {n \in NodeSet(scenegraph) : InEdges(scenegraph, n) = {}}
        /\ Cardinality(Range(roots)) = Len(roots)
        /\ \A n \in NodeSet(scenegraph) :
               Cardinality({i \in 1..Len(roots) : n \in Subtree(scenegraph, roots[i])}) = 1
        /\ UNION {Subtree(scenegraph, roots[i]) : i \in 1..Len(roots)} = NodeSet(scenegraph)

C3_Witness ==
    /\ Len(root_node_indices(scenegraph)) >= 2
    /\ \E n \in NodeSet(scenegraph) : Cardinality(Subtree(scenegraph, n)) >= 3

\* Position of node n in the sequence of calls (0 when absent).
PosIn(calls, n) ==
    IF n \in Range(calls) THEN CHOOSE i \in 1..Len(calls) : calls[i] = n ELSE 0

\* calls is a depth-first pre-order of the forest g: every node once, every
\* tree entered at its root, and the descendants of a node directly after it.
IsPreOrder(g, calls) ==
    /\ Len(calls) = number_of_nodes(g)
    /\ Range(calls) = NodeSet(g)
    /\ \A i \in 1..Len(calls) :
          LET n == calls[i]
              d == Cardinality(Descendants(g, n))
          IN  /\ i + d <= Len(calls)
              /\ {calls[j] : j \in (i + 1)..(i + d)} = Descendants(g, n)
              /\ (InEdges(g, n) # {} => PosIn(calls, get_parent_of(g, n)) \in 1..(i - 1))

\* C4: walk calls the visitor exactly once for every node, enters every tree
\* at its root, and visits a node before any of its descendants, depth first;
\* collect_nodes returns the payloads in that order with offsets 0, 1, 2, ...
C4_WalkPreOrder ==
    /\ (last.op = "walk" /\ last.fails = {}) =>
           /\ last.err = NoIndex
           /\ IsPreOrder(scenegraph, last.calls)
    /\ last.op = "collect_nodes" =>
           LET order == walk(scenegraph, {}).calls
           IN  /\ Len(last.nodes) = number_of_nodes(scenegraph)
               /\ IsPreOrder(scenegraph, order)
               /\ \A i \in 1..Len(last.nodes) :
                      /\ last.nodes[i].offset = i - 1
                      /\ last.nodes[i].value = scenegraph.nodes[order[i] + 1].value

C4_Witness ==
    /\ last.op = "walk" /\ last.fails = {}
    /\ Len(last.calls) = 4
    /\ Len(root_node_indices(scenegraph)) = 2
    /\ \E n \in NodeSet(scenegraph) : Cardinality(Subtree(scenegraph, n)) = 3

\* C5: when the visitor fails at some node, walk returns that first error and
\* the visitor is called on no further node, in this tree or under a later
\* root; what it did at the earlier nodes stays done.
C5_WalkFailFast ==
    (last.op = "walk" /\ last.fails # {}) =>
        LET full == walk(scenegraph, {}).calls
            hits == {i \in 1..Len(full) : full[i] \in last.fails}
            first == CHOOSE i \in hits : \A j \in hits : i <= j
        IN  /\ last.err = full[first]
            /\ last.calls = SubSeq(full, 1, first)
            /\ \A i \in 1..(Len(last.calls) - 1) : last.calls[i] \notin last.fails

C5_Witness ==
    /\ last.op = "walk" /\ last.err # NoIndex
    /\ Len(last.calls) = 2
    /\ number_of_nodes(scenegraph) = 4
    /\ Len(root_node_indices(scenegraph)) >= 2

\* C6: add_child(parent, value) on an existing parent adds exactly one node:
\* the count grows by one, the parent of the returned index is `parent`, the
\* parent has children, and every earlier node keeps its parent.
C6_AddChild ==
    last.op = "add_child" =>
        /\ number_of_nodes(scenegraph) = number_of_nodes(last.pre) + 1
        /\ last.ret \in NodeSet(scenegraph) \ NodeSet(last.pre)
        /\ get_parent_of(scenegraph, last.ret) = last.arg
        /\ InEdges(scenegraph, last.ret) # {}
        /\ \E e \in Range(scenegraph.edges) : e = <<last.arg, last.ret>>
        /\ has_children(scenegraph, last.arg)
        /\ \A i \in NodeSet(last.pre) :
               /\ get_parent_of(scenegraph, i) = get_parent_of(last.pre, i)
               /\ scenegraph.nodes[i + 1] = last.pre.nodes[i + 1]

C6_Witness ==
    /\ last.op = "add_child"
    /\ number_of_nodes(last.pre) >= 2
    /\ has_children(last.pre, last.arg)
    /\ has_parents(last.pre, last.arg)

\* ------------------------------------------------------------- world claims
\* The parent of a node that has one, read from the edges.
ParentByEdge(g, n) == (CHOOSE e \in Range(g.edges) : e[2] = n)[1]

\* The nodes from the root down to n.
RECURSIVE PathTo(_, _)
PathTo(g, n) ==
    IF InEdges(g, n) = {} THEN <<n>> ELSE Append(PathTo(g, ParentByEdge(g, n)), n)

EntityAt(g, n) == g.nodes[n + 1].value
PathHasTransforms(g, n) ==
    \A i \in 1..Len(PathTo(g, n)) : HasTransform(ecs, EntityAt(g, PathTo(g, n)[i]))
LocalMatrix(entity) == matrix(ecs[entity].transform[1])

\* The local matrices of a path multiplied from the root's on, left to right.
PathProduct(g, n) ==
    LET path == PathTo(g, n)
        Prod[i \in 1..Len(path)] ==
            IF i = 1 THEN LocalMatrix(EntityAt(g, path[1]))
            ELSE MatMul(Prod[i - 1], LocalMatrix(EntityAt(g, path[i])))
    IN  Prod[Len(path)]

\* The same matrices multiplied in the opposite order, the node's first.
PathProductReversed(g, n) ==
    LET path == PathTo(g, n)
        Prod[i \in 1..Len(path)] ==
            IF i = 1 THEN LocalMatrix(EntityAt(g, path[1]))
            ELSE MatMul(LocalMatrix(EntityAt(g, path[i])), Prod[i - 1])
    IN  Prod[Len(path)]

\* C7: for a node whose ancestors all have a Transform, global_transform is the
\* product of the local matrices along the path from the root to the node,
\* root first: a root's is its own local matrix, a child's is its parent's
\* global transform times its own local matrix.
C7_GlobalTransformIsPathProduct ==
    (result.op = "global_transform"
        /\ PathHasTransforms(graphs[result.graph], result.index)) =>
        LET g == graphs[result.graph]
            n == result.index
        IN  /\ result.ret.ok
            /\ result.ret.val = PathProduct(g, n)
            /\ InEdges(g, n) = {} => result.ret.val = LocalMatrix(EntityAt(g, n))
            /\ InEdges(g, n) # {} =>
                   result.ret.val = MatMul(PathProduct(g, ParentByEdge(g, n)),
                                           LocalMatrix(EntityAt(g, n)))

C7_Witness ==
    /\ result.op = "global_transform"
    /\ PathHasTransforms(graphs[result.graph], result.index)
    /\ Len(PathTo(graphs[result.graph], result.index)) = 3
    /\ result.ret.val # PathProductReversed(graphs[result.graph], result.index)

Holders(g, entity) == {n \in NodeSet(g) : EntityAt(g, n) = entity}
InSomeGraph(entity) == \E gi \in 1..Len(graphs) : Holders(graphs[gi], entity) # {}
FirstGraphOf(entity) ==
    CHOOSE gi \in 1..Len(graphs) :
        /\ Holders(graphs[gi], entity) # {}
        /\ \A gj \in 1..(gi - 1) : Holders(graphs[gj], entity) = {}

\* The node holding the entity that a walk of g reaches last.
LastHolder(g, entity) ==
    LET order == walk(g, {}).calls
    IN  CHOOSE n \in Holders(g, entity) :
            \A m \in Holders(g, entity) : PosIn(order, m) <= PosIn(order, n)

\* The claim as stated: the composed global transform for an entity that is a
\* node of a graph, the local matrix for one that is not, and an error only
\* when the entity itself has no Transform.
C8_ErrorOnlyWithoutOwnTransform ==
    result.op = "entity_global_transform_matrix" =>
        LET e == result.entity
        IN  /\ ~result.ret.ok => ~HasTransform(ecs, e)
            /\ (HasTransform(ecs, e) /\ InSomeGraph(e)) =>
                   result.ret.val \in
                       {global_transform(ecs, graphs[FirstGraphOf(e)], n).val :
                            n \in Holders(graphs[FirstGraphOf(e)], e)}
            /\ (HasTransform(ecs, e) /\ ~InSomeGraph(e)) =>
                   result.ret.val = LocalMatrix(e)

\* C8 (amended): entity_global_transform_matrix returns the composed global
\* transform of the entity's node in the first graph that holds it (of the
\* node walked last when several hold it), the entity's own local matrix when
\* no graph holds it, and an error only if the entity, or an ancestor of a
\* node holding it in that graph, has no Transform.
C8_EntityGlobalTransformMatrix ==
    result.op = "entity_global_transform_matrix" =>
        LET e == result.entity
        IN  IF InSomeGraph(e)
            THEN LET g == graphs[FirstGraphOf(e)]
                 IN  IF \A n \in Holders(g, e) : PathHasTransforms(g, n)
                     THEN /\ result.ret.ok
                          /\ result.ret.val = PathProduct(g, LastHolder(g, e))
                     ELSE /\ ~result.ret.ok
                          /\ \/ ~HasTransform(ecs, e)
                             \/ \E n \in Holders(g, e) : \E i \in 1..Len(PathTo(g, n)) :
                                    ~HasTransform(ecs, EntityAt(g, PathTo(g, n)[i]))
            ELSE IF HasTransform(ecs, e)
                 THEN result.ret.ok /\ result.ret.val = LocalMatrix(e)
                 ELSE ~result.ret.ok

C8_Witness ==
    /\ result.op = "entity_global_transform_matrix"
    /\ result.ret.ok
    /\ Len(graphs) = 2
    /\ Holders(graphs[1], result.entity) = {}
    /\ \E n \in Holders(graphs[2], result.entity) : InEdges(graphs[2], n) # {}
    /\ result.ret.val # LocalMatrix(result.entity)

BodyOf(entity) == bodies[ecs[entity].rigid_body[1].handle]

\* C9: entity_model_matrix(entity, g) returns g unchanged when the entity has
\* no RigidBody; with one, the result is translation * rotation of the body's
\* current pose times the scale of g, and nothing of g's translation or rotation.
C9_EntityModelMatrix ==
    (result.op = "entity_model_matrix" /\ Alive(ecs, result.entity)) =>
        LET e == result.entity
        IN  IF ~HasRigidBody(ecs, e)
            THEN result.ret.ok /\ result.ret.val = result.global
            ELSE BodyLive(bodies, ecs[e].rigid_body[1].handle) =>
                   /\ result.ret.ok
                   /\ result.ret.val =
                        MatMul(MatMul(Translation(BodyOf(e).translation),
                                      QuatToMat4(BodyOf(e).rotation)),
                               Scaling(result.scale))
                   /\ DecomposeTranslation(result.ret.val) = BodyOf(e).translation

C9_Witness ==
    /\ result.op = "entity_model_matrix"
    /\ HasRigidBody(ecs, result.entity)
    /\ result.ret.ok
    /\ result.scale = Vec3(2, 4, 6)
    /\ DecomposeTranslation(result.global) # BodyOf(result.entity).translation
    /\ BodyOf(result.entity).rotation = QuatIdentity
    /\ result.ret.val # result.global

\* C10: sync_rigid_body_to_transform(entity) sets the body's translation to
\* the entity's Transform.translation, keeps the body's rotation, and changes
\* neither a Transform nor any other body; when it fails it changes nothing.
C10_SyncRigidBodyToTransform ==
    [][result'.op = "sync_rigid_body_to_transform" =>
          LET e == result'.entity
          IN  /\ ecs' = ecs
              /\ Len(bodies') = Len(bodies)
              /\ ~result'.ret.ok => bodies' = bodies
              /\ result'.ret.ok =>
                    LET h == ecs[e].rigid_body[1].handle
                    IN  /\ \A k \in 1..Len(bodies) : k # h => bodies'[k] = bodies[k]
                        /\ BodyLive(bodies, h) =>
                              /\ bodies'[h].translation = ecs[e].transform[1].translation
                              /\ bodies'[h].rotation = bodies[h].rotation
                              /\ bodies'[h].live]_vars

C10_Witness ==
    /\ result.op = "sync_rigid_body_to_transform"
    /\ result.ret.ok
    /\ result.before # <<>>
    /\ result.before[1].translation # BodyOf(result.entity).translation
    /\ BodyOf(result.entity).translation = ecs[result.entity].transform[1].translation
    /\ BodyOf(result.entity).rotation # ecs[result.entity].transform[1].rotation
    /\ Len(bodies) = 2

\* ------------------------------------------------------------- the pull direction
HandleOf(store, entity) == store[entity].rigid_body[1].handle

\* A step of World::tick
TickStep ==
    \E h \in 0..MaxBodies, t \in SyncTranslations, r \in StepRotations, a \in BOOLEAN :
        Tick(h, t, r, a)

\* C11: sync_transform_to_rigid_body(entity), for an entity with a Transform
\* and a RigidBody whose body resolves, succeeds, overwrites the Transform's
\* translation and rotation with the body's, keeps its scale, keeps the
\* body's pose, wakes the body, and changes no other entity or body.
C11_SyncTransformToRigidBody ==
    [][(/\ result'.op = "sync_transform_to_rigid_body"
        /\ HasRigidBody(ecs, result'.entity)
        /\ HasTransform(ecs, result'.entity)
        /\ BodyLive(bodies, HandleOf(ecs, result'.entity))) =>
          LET e == result'.entity
              h == HandleOf(ecs, e)
          IN  /\ result'.ret.ok
              /\ ecs'[e].transform[1].translation = bodies[h].translation
              /\ ecs'[e].transform[1].rotation = bodies[h].rotation
              /\ ecs'[e].transform[1].scale = ecs[e].transform[1].scale
              /\ ecs'[e].rigid_body = ecs[e].rigid_body
              /\ bodies'[h].translation = bodies[h].translation
              /\ bodies'[h].rotation = bodies[h].rotation
              /\ bodies'[h].live
              /\ bodies'[h].awake
              /\ Len(ecs') = Len(ecs) /\ Len(bodies') = Len(bodies)
              /\ \A k \in 1..Len(ecs) : k # e => ecs'[k] = ecs[k]
              /\ \A k \in 1..Len(bodies) : k # h => bodies'[k] = bodies[k]]_vars

C11_Witness ==
    /\ result.op = "sync_transform_to_rigid_body"
    /\ result.ret.ok
    /\ result.before # <<>>
    /\ ~result.before[1].awake
    /\ BodyOf(result.entity).awake
    /\ result.pre[1][result.entity].transform[1].translation
          # ecs[result.entity].transform[1].translation
    /\ ecs[result.entity].transform[1].rotation = BodyOf(result.entity).rotation
    /\ ecs[result.entity].transform[1].scale = Vec3(2, 2, 2)
    /\ Len(ecs) = 2

\* C12: in the pull direction a RigidBody whose handle no longer resolves is
\* a silent no-op: sync_transform_to_rigid_body succeeds and changes nothing,
\* and sync_all_rigid_bodies (alone or in a tick) leaves that entity as it was.
C12_StaleHandleIsNoOp ==
    [][/\ (/\ result'.op = "sync_transform_to_rigid_body"
            /\ HasRigidBody(ecs, result'.entity)
            /\ HasTransform(ecs, result'.entity)
            /\ ~BodyLive(bodies, HandleOf(ecs, result'.entity))) =>
              (result'.ret.ok /\ ecs' = ecs /\ bodies' = bodies)
       /\ (result'.op = "sync_all_rigid_bodies" \/ TickStep) =>
              \A e \in 1..Len(ecs) :
                  (HasRigidBody(ecs, e) /\ ~BodyLive(bodies, HandleOf(ecs, e))) =>
                      ecs'[e] = ecs[e]]_vars

C12_Witness ==
    /\ result.op = "sync_transform_to_rigid_body"
    /\ result.ret.ok
    /\ HasRigidBody(ecs, result.entity)
    /\ HasTransform(ecs, result.entity)
    /\ ~BodyLive(bodies, HandleOf(ecs, result.entity))
    /\ BodyOf(result.entity).translation # ecs[result.entity].transform[1].translation
    /\ result.pre = <<ecs>>

\* C13: sync_rigid_body_to_transform(entity) followed at once by
\* sync_transform_to_rigid_body(entity), for an entity with a Transform and a
\* body that resolves, leaves Transform.translation as it was before the two
\* calls.
C13_PushThenPullKeepsTranslation ==
    [][(/\ result.op = "sync_rigid_body_to_transform"
        /\ result.ret.ok
        /\ result'.op = "sync_transform_to_rigid_body"
        /\ result'.entity = result.entity
        /\ BodyLive(bodies, HandleOf(ecs, result.entity))) =>
          /\ result'.ret.ok
          /\ ecs'[result.entity].transform[1].translation
                = result.pre[1][result.entity].transform[1].translation]_vars

C13_Witness ==
    /\ result.op = "sync_transform_to_rigid_body"
    /\ result.prev = <<"sync_rigid_body_to_transform", result.entity, TRUE>>
    /\ result.ret.ok
    /\ result.before # <<>>
    /\ ecs[result.entity].transform[1].translation = Vec3(1, 1, 0)
    /\ result.pre[1][result.entity].transform[1].rotation
          # ecs[result.entity].transform[1].rotation

\* C14: after sync_all_rigid_bodies, alone or at the end of a tick, every
\* entity with a Transform and a RigidBody whose body resolves has the
\* translation and rotation of its body, and the entities without a RigidBody
\* are as they were.
C14_SyncAllRigidBodies ==
    [][(result'.op = "sync_all_rigid_bodies" \/ TickStep) =>
          /\ Len(ecs') = Len(ecs)
          /\ \A e \in 1..Len(ecs) :
                /\ (/\ HasRigidBody(ecs, e) /\ HasTransform(ecs, e)
                    /\ BodyLive(bodies', HandleOf(ecs, e))) =>
                      /\ ecs'[e].transform[1].translation
                            = bodies'[HandleOf(ecs, e)].translation
                      /\ ecs'[e].transform[1].rotation
                            = bodies'[HandleOf(ecs, e)].rotation
                      /\ ecs'[e].transform[1].scale = ecs[e].transform[1].scale
                      /\ ecs'[e].rigid_body = ecs[e].rigid_body
                /\ ~HasRigidBody(ecs, e) => ecs'[e] = ecs[e]]_vars

C14_Witness ==
    /\ result.op = "sync_all_rigid_bodies"
    /\ \E e \in 1..Len(ecs), f \in 1..Len(ecs) :
          /\ HasRigidBody(ecs, e) /\ BodyLive(bodies, HandleOf(ecs, e))
          /\ result.pre[1][e].transform[1].translation # ecs[e].transform[1].translation
          /\ result.pre[1][e].transform[1].rotation # ecs[e].transform[1].rotation
          /\ ecs[e].transform[1].translation = BodyOf(e).translation
          /\ ~HasRigidBody(ecs, f) /\ HasTransform(ecs, f)

\* ------------------------------------------------------------- cameras and the scene
EnabledCameras == {e \in CameraEntities(ecs) : ecs[e].camera[1].enabled}

\* C15: active_camera() returns an entity whose Camera is enabled, the first
\* such entity in the order the query yields them, whenever one exists; it
\* fails with FindActiveCamera exactly when no entity has an enabled Camera.
C15_ActiveCamera ==
    result.op = "active_camera" =>
        /\ result.ret.ok <=> EnabledCameras # {}
        /\ ~result.ret.ok => result.ret.err = "FindActiveCamera"
        /\ result.ret.ok =>
              /\ result.ret.val \in EnabledCameras
              /\ \E i \in 1..Len(result.order) :
                    /\ result.order[i] = result.ret.val
                    /\ \A j \in 1..(i - 1) : result.order[j] \notin EnabledCameras

C15_Witness ==
    /\ result.op = "active_camera"
    /\ result.ret.ok
    /\ Len(result.order) = 3
    /\ result.order[1] \notin EnabledCameras
    /\ result.order[2] = result.ret.val
    /\ result.order[3] \in EnabledCameras

\* C17 as claimed: a Scene is created with exactly one empty graph, and after
\* World::clear() scene.graphs is a single empty graph.
C17_ClearLeavesOneEmptyGraph ==
    /\ SceneDefault.graphs = <<EmptyGraph>>
    /\ result.op = "clear" => graphs = <<EmptyGraph>>

\* The entities alive in the ECS
LiveEntities == {e \in 1..Len(ecs) : ecs[e].live}

\* C17, amended: a Scene is created with exactly one empty graph, and after
\* World::clear() scene.graphs is a single graph without edges whose two
\* nodes are the default camera and the default light, the only entities left.
C17_ClearLeavesDefaultScene ==
    /\ SceneDefault.graphs = <<EmptyGraph>>
    /\ result.op = "clear" =>
          /\ result.ret.ok
          /\ Len(graphs) = 1
          /\ graphs[1].edges = <<>>
          /\ Len(graphs[1].nodes) = 2
          /\ LET camera == graphs[1].nodes[1].value
                 light == graphs[1].nodes[2].value
             IN  /\ LiveEntities = {camera, light}
                 /\ camera # light
                 /\ ecs[camera] = DefaultCamera
                 /\ ecs[light] = DefaultLight
                 /\ camera \notin 1..Len(result.pre[1])
                 /\ light \notin 1..Len(result.pre[1])

C17_Witness ==
    /\ result.op = "clear"
    /\ Len(result.before[1]) = 2
    /\ Len(result.before[1][1].nodes) >= 1
    /\ Len(result.before[1][2].nodes) >= 1
    /\ \E e \in 1..Len(result.pre[1]) : result.pre[1][e].live
    /\ Len(graphs) = 1

\* ------------------------------------------------------------- colliders
\* C16: a collider added for an entity with a RigidBody goes in with that
\* body as its parent and its handle is appended to RigidBody.colliders; for
\* an entity without one it goes in free-standing and no component of any
\* entity changes.  A live entity always gets its cylinder; a failed call
\* changes nothing.
C16_InsertCollider ==
    [][result'.op \in {"add_cylinder_collider", "add_box_collider"} =>
          LET e == result'.entity
              handle == Len(colliders) + 1
          IN  /\ (result'.op = "add_cylinder_collider" /\ Alive(ecs, e)) => result'.ret.ok
              /\ ~result'.ret.ok => (ecs' = ecs /\ colliders' = colliders)
              /\ result'.ret.ok =>
                    /\ Len(colliders') = handle
                    /\ \A c \in 1..Len(colliders) : colliders'[c] = colliders[c]
                    /\ bodies' = bodies
                    /\ IF HasRigidBody(ecs, e)
                       THEN /\ colliders'[handle].parent = <<HandleOf(ecs, e)>>
                            /\ ecs'[e].rigid_body[1].colliders =
                                  Append(ecs[e].rigid_body[1].colliders, handle)
                            /\ ecs'[e].rigid_body[1].handle = HandleOf(ecs, e)
                            /\ ecs'[e].transform = ecs[e].transform
                            /\ ecs'[e].mesh = ecs[e].mesh
                            /\ Len(ecs') = Len(ecs)
                            /\ \A k \in 1..Len(ecs) : k # e => ecs'[k] = ecs[k]
                       ELSE /\ colliders'[handle].parent = <<>>
                            /\ ecs' = ecs]_vars

C16_Witness ==
    /\ result.op = "add_box_collider"
    /\ result.ret.ok
    /\ HasRigidBody(ecs, result.entity)
    /\ Len(colliders) = 2
    /\ colliders[1].parent = <<>>
    /\ colliders[2].parent = <<HandleOf(ecs, result.entity)>>
    /\ colliders[2].shape = <<"cuboid", 2, 2, 2>>
    /\ ecs[result.entity].rigid_body[1].colliders = <<2>>

\* ------------------------------------------------------------- C18
\* The entities a world holds
LiveIn(store) == {e \in 1..Len(store) : store[e].live}

\* Two graphs with the same nodes and the same parent -> child edges
SameStructure(g, h) ==
    /\ GraphEntities(g) = GraphEntities(h)
    /\ Range(g.edges) = Range(h.edges)
    /\ Len(g.edges) = Len(h.edges)

\* Two graphs that walk() visits in the same order
SameWalk(g, h) == walk(g, {}).calls = walk(h, {}).calls

\* C18: World::from_bytes(world.as_bytes()) yields a world with the same
\* number of entities, scene graphs with the same structure and walk order,
\* and equal component values for every registered component type.
C18_RoundTripKeepsWorld ==
    [][result'.op = "round_trip" =>
          /\ result'.ret.ok
          /\ Cardinality(LiveIn(ecs')) = Cardinality(LiveIn(ecs))
          /\ \A e \in LiveIn(ecs) : ecs'[e] = ecs[e]
          /\ Len(graphs') = Len(graphs)
          /\ \A gi \in 1..Len(graphs) :
                /\ SameStructure(graphs'[gi], graphs[gi])
                /\ SameWalk(graphs'[gi], graphs[gi])]_vars

\* ------------------------------------------------------------- C19
\* The keys the saved bytes hold components under
BlobKeys == UNION {PairKeys(blob[1].ecs[i].components) : i \in 1..Len(blob[1].ecs)}

\* C19: deserializing a world blob that contains a component type which is
\* not in the registry returns the error DeserializeWorld, and no world, with
\* that component dropped or otherwise, comes out of it.
C19_UnknownTypeIsAnError ==
    [][(result'.op = "from_bytes" /\ ~(BlobKeys \subseteq registry)) =>
          /\ result'.ret = Err("DeserializeWorld")
          /\ UNCHANGED <<ecs, bodies, colliders, graphs, materials>>]_vars

\* a blob saved with "extra" registered was read by a process that has not
\* registered it, and the read failed
C19_Witness ==
    /\ result.op = "from_bytes"
    /\ blob # <<>>
    /\ "extra" \in BlobKeys
    /\ "extra" \notin registry
    /\ result.ret = Err("DeserializeWorld")
    /\ ecs = <<>>

\* ------------------------------------------------------------- C20
\* C20: no lookup failure in a World operation panics: an entity not found
\* in the ECS, a component missing on an entity, a material index out of
\* range and an absent default scenegraph each reach the caller as an Err
\* value, for every public World operation that performs such a lookup.
C20_LookupFailuresAreErrors == result.ret.err # "panic"

\* ------------------------------------------------------------- C21
\* C21: the registry holds the built-in keys name, transform, camera, mesh,
\* skin, light and rigid_body from its first access, and within a process it
\* only grows: register_component adds a key, and no register_component,
\* serialize or deserialize call takes a registered key away.
C21_RegistryAppendOnly ==
    /\ BuiltinKeys \subseteq registry
    /\ [][/\ BuiltinKeys \subseteq registry'
          /\ (Restart \/ registry \subseteq registry')]_vars

\* a key registered later is still there after a save and a load
C21_Witness ==
    /\ "extra" \in registry
    /\ blob # <<>>
    /\ result.op = "from_bytes"
    /\ result.ret.ok
    /\ "extra" \in BlobKeys

\* ------------------------------------------------------------- C22
\* C22: find_node(value) returns the index of the first node, in ascending
\* node-index order, whose payload equals value, and None when no node holds
\* that value.
C22_FindNodeFirstMatch ==
    last.op = "find_node" =>
        LET holders == {n \in NodeSet(last.pre) : last.pre.nodes[n + 1].value = last.arg}
        IN  IF holders = {} THEN last.ret = NoIndex
            ELSE /\ last.ret \in holders
                 /\ \A n \in holders : last.ret <= n

\* a value two nodes hold was looked for, and one no node holds
C22_Witness ==
    /\ last.op = "find_node"
    /\ last.ret # NoIndex
    /\ \E n \in NodeSet(last.pre) : n > last.ret /\ last.pre.nodes[n + 1].value = last.arg
    /\ \E v \in Values : find_node(last.pre, v) = NoIndex

\* ------------------------------------------------------------- C23
\* The parents of node n, by the uid of their payload
ParentUids(g, n) == {UidAt(g, g.edges[k][1]) : k \in InEdges(g, n)}

\* C23: remove_node(n) leaves every node outside n's subtree in the graph:
\* each such node is still present afterwards with the same payload value and
\* the same parent (or no parent) as before the call.
C23_RemoveNodeKeepsTheRest ==
    RemovedValid =>
        \A i \in NodeSet(last.pre) \ Subtree(last.pre, last.arg) :
            \E j \in NodeSet(scenegraph) :
                /\ scenegraph.nodes[j + 1] = last.pre.nodes[i + 1]
                /\ ParentUids(scenegraph, j) = ParentUids(last.pre, i)

\* ------------------------------------------------------------- C24
\* C24: a NodeIndex returned by add_root_node or add_child keeps referring to
\* the same payload for as long as that node has not been removed, including
\* after remove_node has been called on other nodes: no operation moves a
\* node that stays in the graph away from its index.
C24_NodeIndexStable ==
    [][\A i \in NodeSet(scenegraph) :
          UidAt(scenegraph, i) \in Uids(scenegraph') =>
              /\ i \in NodeSet(scenegraph')
              /\ scenegraph'.nodes[i + 1] = scenegraph.nodes[i + 1]]_vars

\* ------------------------------------------------------------- C29
\* C29: remove_node terminates for every graph and every index, including an
\* index that is out of range and graphs containing cycles, self-loops or
\* multi-parent nodes created through add_edge: a call in progress leads to
\* no call in progress.
C29_RemoveNodeTerminates == (last.stack # <<>>) ~> (last.stack = <<>>)

\* remove_node has returned on a graph where the node removed was on a cycle
\* through another node, and what it left is what the recursion computes
C29_Witness ==
    /\ last.op = "remove_node"
    /\ \E b \in Descendants(last.pre, last.arg) : last.arg \in Subtree(last.pre, b)
    /\ number_of_nodes(last.pre) = MaxEdgeNodes
    /\ scenegraph = remove_node(last.pre, last.arg)

\* ------------------------------------------------------------- C30
\* The entities of the nodes of all graphs, graph by graph, each in the order
\* walk() visits it
AllWalk(gs) ==
    Flatten([i \in 1..Len(gs) |->
                LET calls == walk(gs[i], {}).calls
                IN  [k \in 1..Len(calls) |-> gs[i].nodes[calls[k] + 1].value]])

\* An entity that renders a mesh the geometry holds
RendersMesh(node) == ecs[node.value].mesh # <<>> /\ ecs[node.value].mesh[1] \in DOMAIN Meshes

\* C30: flatten_scenegraphs() assigns the offsets 0..N-1, without gaps or
\* repeats, to the N nodes of all scene graphs taken in graph order and then
\* walk order, and get_metadata() labels the primitives of each entity with
\* exactly that same offset for the entity's node.
C30_OffsetsAgree ==
    /\ result.op = "flatten_scenegraphs" =>
          LET flat == result.ret.val
          IN  /\ Len(flat) = SceneNodes
              /\ \A k \in 1..Len(flat) :
                    flat[k].offset = k - 1 /\ flat[k].value = AllWalk(graphs)[k]
    /\ result.op = "get_metadata" =>
          LET rendered == SelectSeq(flatten_scenegraphs(graphs), RendersMesh)
          IN  /\ result.ret.ok
              /\ result.ret.val = [k \in 1..Len(rendered) |->
                                      [mesh |-> ecs[rendered[k].value].mesh[1],
                                       offset |-> rendered[k].offset]]

\* the metadata was read of a scene whose second graph holds a mesh under a
\* parent, after a first graph that is not empty
C30_Witness ==
    /\ result.op = "get_metadata"
    /\ Len(graphs) = 2
    /\ number_of_nodes(graphs[1]) >= 1
    /\ Len(graphs[2].edges) >= 1
    /\ \E k \in 1..Len(result.ret.val) :
          result.ret.val[k].offset >= number_of_nodes(graphs[1]) + 1

\* ------------------------------------------------------------- the state machine at work
notMachine == <<graphVars, ecs, bodies, graphs, result, colliders, materials,
                registry, canon, blob, commands>>

\* No further call is made once MaxCalls callbacks were delivered.
MachineOpen == Len(machine.calls) < MaxCalls

\* A method is called: the fuse-th callback it makes returns Err.
Armed(fuse) == [machine EXCEPT !.fuse = fuse]

Disarmed(m) == [m EXCEPT !.fuse = 0]

\* The handlers box a new state for every Push and Switch they return.
BoxedBy(requests) ==
    Cardinality({i \in DOMAIN requests : requests[i] \in {"Push", "Switch"}})

\* StateMachine::start
Start(fuse) ==
    /\ MachineOpen
    /\ machine' = Disarmed(start(Armed(fuse)))
    /\ UNCHANGED notMachine

\* StateMachine::stop
Stop(fuse) ==
    /\ MachineOpen
    /\ machine' = Disarmed(stop(Armed(fuse)))
    /\ UNCHANGED notMachine

\* StateMachine::handle_event, the handler returning request
HandleEvent(request, fuse) ==
    /\ MachineOpen
    /\ machine.created + BoxedBy(<<request>>) <= MaxStates
    /\ machine' = Disarmed(handle_event(Armed(fuse), request))
    /\ UNCHANGED notMachine

\* StateMachine::update, the handler returning request
Update(request, fuse) ==
    /\ MachineOpen
    /\ machine.created + BoxedBy(<<request>>) <= MaxStates
    /\ machine' = Disarmed(update(Armed(fuse), request))
    /\ UNCHANGED notMachine

\* StateMachine::update_gui, the handler returning request
UpdateGui(request, fuse) ==
    /\ MachineOpen
    /\ machine.created + BoxedBy(<<request>>) <= MaxStates
    /\ machine' = Disarmed(update_gui(Armed(fuse), request))
    /\ UNCHANGED notMachine

\* One iteration of the event loop of the application.
RunLoop(gui_captured_event, event, fuse) ==
    /\ MachineOpen
    /\ \E requests \in [1..Len(RunLoopCallbacks(gui_captured_event, event)) -> Requests] :
          /\ machine.created + BoxedBy(requests) <= MaxStates
          /\ machine' = Disarmed(run_loop(Armed(fuse), gui_captured_event, event, requests))
    /\ UNCHANGED notMachine

\* An application driving its state machine, every callback returning Ok: the
\* event loop, and the public methods of the machine called directly.
NextMachine ==
    \/ Start(0)
    \/ Stop(0)
    \/ \E request \in Requests : HandleEvent(request, 0)
    \/ \E request \in Requests : Update(request, 0)
    \/ \E request \in Requests : UpdateGui(request, 0)
    \/ \E gui_captured_event \in BOOLEAN, event \in Events :
          RunLoop(gui_captured_event, event, 0)

SpecMachine == Init /\ [][NextMachine]_vars

\* The methods of the machine called on states whose callbacks may fail.
NextLifecycle ==
    \/ \E fuse \in 0..MaxFuse : Start(fuse)
    \/ \E fuse \in 0..MaxFuse : Stop(fuse)
    \/ \E request \in Requests, fuse \in 0..MaxFuse : HandleEvent(request, fuse)
    \/ \E request \in Requests, fuse \in 0..MaxFuse : Update(request, fuse)

SpecLifecycle == Init /\ [][NextLifecycle]_vars

\* every callback made so far returned Ok: the handlers returned a Transition
AllOk == \A i \in 1..Len(machine.calls) : machine.calls[i].ok

\* C25: as long as every callback returns Ok, whenever the state machine is
\* running its state stack is not empty, and no call on the machine fails
\* with NoStatesPresent.
C25_RunningHasStates ==
    AllOk => /\ is_running(machine) => machine.states # <<>>
             /\ machine.ret # "NoStatesPresent"

\* The callbacks a state has received, in order.
CallsOf(state) == SelectSeq(machine.calls, LAMBDA c : c.state = state)

Delivered == {"on_event", "update", "update_gui", "on_key"}

\* on_pause and on_resume alternate, on_pause first, and a delivered callback
\* does not fall between an on_pause and the on_resume after it.
RECURSIVE PauseOrder(_, _, _)
PauseOrder(h, i, paused) ==
    IF i > Len(h) THEN TRUE
    ELSE CASE h[i].callback = "on_pause" -> ~paused /\ PauseOrder(h, i + 1, TRUE)
           [] h[i].callback = "on_resume" -> paused /\ PauseOrder(h, i + 1, FALSE)
           [] h[i].callback \in Delivered -> ~paused /\ PauseOrder(h, i + 1, paused)
           [] OTHER -> PauseOrder(h, i + 1, paused)

\* C26: for every state the callbacks follow the lifecycle order: on_start is
\* the first callback, on_pause and on_resume alternate
\* beginning with on_pause, events and updates are delivered only to the
\* state on top of the stack and never to a paused state, on_stop is made at
\* most once and no callback follows it.
C26_LifecycleOrder ==
    \A state \in 1..MaxStates :
        LET h == CallsOf(state) IN
        /\ h # <<>> => h[1].callback = "on_start"
        /\ PauseOrder(h, 1, FALSE)
        /\ \A i \in 1..Len(h) : h[i].callback \in Delivered => h[i].top = state
        /\ \A i \in 1..Len(h) : h[i].callback = "on_stop" => i = Len(h)

\* ------------------------------------------------------------- the command list at work
notCommands == <<graphVars, ecs, bodies, graphs, result, colliders, materials,
                 registry, canon, blob, machine>>

\* the command boxed next
NewCommand(undoable) == [id |-> commands.boxed + 1, undoable |-> undoable]

\* the calls of undo and redo that reached a command
UndoRedoRuns == SelectSeq(commands.runs, LAMBDA r : r.by \in {"undo", "redo"})

\* A panel of the editor queues a command (CommandList::queue_command).
QueueCommand(undoable) ==
    /\ commands.boxed < MaxCommands
    /\ commands' = [queue_command(commands, NewCommand(undoable))
                        EXCEPT !.boxed = commands.boxed + 1]
    /\ UNCHANGED notCommands

\* Editor::update: self.commands.execute_pending_commands(resources)?; what
\* follows it touches the camera only.
EditorUpdate(fail) ==
    /\ fail \in 0..Len(commands.pending_commands)
    /\ commands' = execute_pending_commands(commands, fail)
    /\ UNCHANGED notCommands

\* CommandList::execute called with a command of its own
Execute(undoable, ok) ==
    /\ commands.boxed < MaxCommands
    /\ commands' = [execute(commands, NewCommand(undoable), ok)
                        EXCEPT !.boxed = commands.boxed + 1]
    /\ UNCHANGED notCommands

\* CommandList::undo
Undo(ok) ==
    /\ Len(UndoRedoRuns) < MaxUndoRedo
    /\ commands' = undo(commands, ok)
    /\ UNCHANGED notCommands

\* CommandList::redo
Redo(ok) ==
    /\ Len(UndoRedoRuns) < MaxUndoRedo
    /\ commands' = redo(commands, ok)
    /\ UNCHANGED notCommands

NextCommands ==
    \/ \E undoable \in BOOLEAN : QueueCommand(undoable)
    \/ \E fail \in 0..MaxCommands : EditorUpdate(fail)
    \/ \E undoable \in BOOLEAN, ok \in BOOLEAN : Execute(undoable, ok)
    \/ \E ok \in BOOLEAN : Undo(ok)
    \/ \E ok \in BOOLEAN : Redo(ok)

SpecCommands == Init /\ [][NextCommands]_vars

\* the calls on commands made by the last method
NewRuns == SubSeq(commands.runs, commands.op.ran + 1, Len(commands.runs))

Top(cs) == cs[Len(cs)]

Front(cs) == SubSeq(cs, 1, Len(cs) - 1)

\* what execute, undo and redo have done to the two stacks
StacksAfterCall ==
    LET op == commands.op IN
    /\ (op.name = "execute" /\ op.ok) =>
          IF op.command.undoable
          THEN /\ commands.undo_commands = Append(op.undo_commands, op.command)
               /\ commands.redo_commands = <<>>
          ELSE /\ commands.undo_commands = op.undo_commands
               /\ commands.redo_commands = op.redo_commands
    /\ op.name = "undo" =>
          IF op.undo_commands = <<>>
          THEN /\ commands.undo_commands = <<>>
               /\ commands.redo_commands = op.redo_commands
               /\ NewRuns = <<>>
          ELSE /\ commands.undo_commands = Front(op.undo_commands)
               /\ commands.redo_commands = Append(op.redo_commands, Top(op.undo_commands))
               /\ Len(NewRuns) = 1
               /\ NewRuns[1].id = Top(op.undo_commands).id
               /\ NewRuns[1].callback = "undo"
    /\ op.name = "redo" =>
          IF op.redo_commands = <<>>
          THEN /\ commands.redo_commands = <<>>
               /\ commands.undo_commands = op.undo_commands
               /\ NewRuns = <<>>
          ELSE /\ commands.redo_commands = Front(op.redo_commands)
               /\ commands.undo_commands = Append(op.undo_commands, Top(op.redo_commands))
               /\ Len(NewRuns) = 1
               /\ NewRuns[1].id = Top(op.redo_commands).id
               /\ NewRuns[1].callback = "execute"

\* a redo that returns Ok right after an undo that returned Ok
RedoAfterUndo ==
    /\ commands.op.name = "undo" /\ commands.op.ok /\ commands.op.undo_commands # <<>>
    /\ commands'.op.name = "redo" /\ commands'.op.ok

\* C27: executing an undoable command pushes it on the undo stack and empties
\* the redo stack, executing another command changes neither stack; undo calls
\* the undo of the command on top of the undo stack and moves it to the redo
\* stack, redo executes the command on top of the redo stack and moves it
\* back, both do nothing on an empty stack, and an undo that succeeded followed
\* by a redo leaves both stacks as they were before the undo.
C27_UndoRedoStacks ==
    /\ []StacksAfterCall
    /\ [][RedoAfterUndo => /\ commands'.undo_commands = commands.op.undo_commands
                           /\ commands'.redo_commands = commands.op.redo_commands]_vars

PendingRuns == SelectSeq(commands.runs, LAMBDA r : r.by = "pending")

\* the ids behind id in a batch
Behind(batch, id) ==
    {batch[j] : j \in {j \in 1..Len(batch) : \E i \in 1..(j - 1) : batch[i] = id}}

\* C28: execute_pending_commands executes the queued commands in the order
\* they were queued, each at most once, and leaves the queue empty whether it
\* returns Ok or Err; the commands queued behind one that fails are executed
\* neither in that call nor in a later one.
C28_PendingInOrderOnce ==
    /\ commands.op.name = "execute_pending_commands" =>
          /\ commands.pending_commands = <<>>
          /\ Ids(NewRuns) = SubSeq(Ids(commands.op.pending_commands), 1, Len(NewRuns))
          /\ \A i \in 1..Len(NewRuns) :
                /\ NewRuns[i].callback = "execute"
                /\ NewRuns[i].ok = (commands.op.ok \/ i < Len(NewRuns))
          /\ commands.op.ok => Len(NewRuns) = Len(commands.op.pending_commands)
    /\ \A i, j \in 1..Len(PendingRuns) : i < j => PendingRuns[i].id # PendingRuns[j].id
    /\ \A i \in 1..Len(PendingRuns) :
          ~PendingRuns[i].ok =>
              \A j \in 1..Len(commands.runs) :
                  commands.runs[j].id \notin Behind(PendingRuns[i].batch, PendingRuns[i].id)

\* a command failed with another queued behind it, and a later call executed
\* the commands queued since
C28_Witness ==
    /\ commands.op.name = "execute_pending_commands"
    /\ NewRuns # <<>>
    /\ \E i \in 1..commands.op.ran :
          /\ commands.runs[i].by = "pending"
          /\ ~commands.runs[i].ok
          /\ Behind(commands.runs[i].batch, commands.runs[i].id) # {}
====
